---- MODULE Spec2Model ----
(***************************************************************************)
(* Regatta Race Suite backend: the SHA-256 chained audit log (audit.rs),   *)
(* the UWB hub with its per-node sequence tracker (uwb_hub.rs), the OCS    *)
(* predicates (uwb_hub.rs, trilateration.rs, uwb-types/lib.rs) and the     *)
(* procedure engine with its director handlers and tick task               *)
(* (procedure_engine.rs, handlers.rs, main.rs).                            *)
(*                                                                         *)
(* Each subsystem has its own specification over the shared variables:     *)
(*   SpecAudit  - concurrent AuditLogger::append calls and a tamperer      *)
(*   SpecHub    - process_packet on datagrams from a few nodes             *)
(*   SpecOcs    - one OCS determination by each of the three predicates    *)
(*   SpecRace   - director handlers, auto-timers and the 5 Hz tick task    *)
(***************************************************************************)
EXTENDS Integers, Sequences, FiniteSets, TLC

\* ------------------------------------------------------------------------
\* Bounds of the model (not program constants)
\* ------------------------------------------------------------------------
\* number of AuditLogger::append calls started in one behaviour
MaxAppends == 3
\* number of envelopes the hub accepts in one behaviour
MaxPackets == 2
\* number of director commands received in one behaviour
MaxCommands == 2
\* number of ticks the tick task computes on a running engine in one behaviour
MaxTicks == 4
\* number of calls other than tick made directly on the engine in one behaviour
MaxEngineCalls == 4
\* tenths of a second that pass while the engine is called directly
MaxClock == 7
\* seconds the standard sequence is ticked for
MaxRunSeconds == 302

VARIABLES
    audit_state,        \* AuditState { block_seq, last_hash } behind the RwLock
    audit_session_id,   \* AuditLogger.session_id
    audit_task,         \* per calling task: position inside append and its locals
    audit_file,         \* /data/audit.jsonl: the lines written, in file order
    audit_blocks,       \* every block AuditBlock::new produced, in production order
    audit_calls,        \* append calls started so far
    replay,             \* a stored copy of the chain after one field was altered
    tamper,             \* which block and field of the copy was altered
    hub_config,         \* UwbHubConfig { ocs_threshold_m, min_fix_quality }
    last_seq,           \* SeqTracker.last_seq : node_id -> last accepted seq_num
    ocs_chan,           \* the bounded mpsc channel of OcsEvent, oldest first
    ocs_delivered,      \* the OcsEvents a consumer has received from the channel
    hub_last,           \* what process_packet did with the latest datagram
    hub_accepted,       \* the (node_id, seq_num) pairs accepted so far
    hub_pkts,           \* envelopes accepted so far
    ocs_case,           \* the inputs of one OCS determination
    ocs_result,         \* what the three OCS predicates answered on them
    engine,             \* SharedEngine: the ProcedureEngine behind its RwLock
    race,               \* SharedState: the RaceState behind its RwLock
    state_lock,         \* who holds the RwLock of SharedState across a suspension
    workers,            \* the handler and auto-timer tasks in flight
    tick_task,          \* run_engine_tick: its position and locals
    last_emit,          \* the socket events of the latest step that emitted any
    commands,           \* director commands received so far
    ticks,              \* engine ticks computed so far
    status_changes,     \* how often a write changed RaceState.status
    eng_call,           \* the latest direct call on the ProcedureEngine and its result
    eng_clock,          \* time passed while the engine is called directly
    eng_calls,          \* calls other than tick made directly on the engine
    solver,             \* one call of trilateration::solve: its inputs and locals
    epoch,              \* generate_epoch at one node: its peer reports and fix quality
    disk,               \* state.json
    boots               \* cold starts of the backend so far

audit_vars == <<audit_state, audit_session_id, audit_task, audit_file,
                audit_blocks, audit_calls, replay, tamper>>

hub_vars == <<hub_config, last_seq, ocs_chan, ocs_delivered, hub_last,
              hub_accepted, hub_pkts>>

ocs_vars == <<ocs_case, ocs_result>>

race_vars == <<engine, race, state_lock, workers, tick_task, last_emit,
               commands, ticks, status_changes>>

call_vars == <<eng_call, eng_clock, eng_calls>>

solve_vars == <<solver, epoch>>

boot_vars == <<disk, boots>>

vars == <<audit_state, audit_session_id, audit_task, audit_file, audit_blocks,
          audit_calls, replay, tamper, hub_config, last_seq, ocs_chan,
          ocs_delivered, hub_last, hub_accepted, hub_pkts, ocs_case, ocs_result,
          engine, race, state_lock, workers, tick_task, last_emit, commands,
          ticks, status_changes, eng_call, eng_clock, eng_calls, solver, epoch,
          disk, boots>>

\* ------------------------------------------------------------------------
\* audit.rs : types
\* ------------------------------------------------------------------------
\* the tasks that may be inside append at the same time (the logger is Clone
\* over Arc<RwLock<..>>, so any number of tasks may call it)
AuditTasks == {"t1", "t2"}

AuditEventType ==
    {"RACE_STATUS_CHANGE", "OCS_DETECTED", "UWB_GUN_SOLVE",
     "UWB_MEASUREMENT_BATCH", "SESSION_EVENT", "PROTEST_REPLAY"}

\* the event types and payloads the callers of this model pass to append
AppendEventTypes == {"SESSION_EVENT"}
Payloads == {"{\"a\":1}"}
SessionIds == {"default", "s1"}
\* wall-clock readings SystemTime::now() may return
Timestamps == {1}

\* 64 zero hex digits; hashes are modelled as tuples so a 1-tuple stands for it
GENESIS_HASH == <<"0000000000000000000000000000000000000000000000000000000000000000">>

\* a hash that leaves the payload out
ComputeHashNoPayload(prev_hash, timestamp_ms, event_type, payload_json) ==
    <<prev_hash, timestamp_ms, event_type>>

\* SHA-256 over prev_hash || timestamp_ms (LE) || event_type || payload_json,
\* modelled as injective in the four hashed inputs: the digest is the tuple
\* of what was fed to the hasher.  block_seq and session_id are not fed.
compute_hash(prev_hash, timestamp_ms, event_type, payload_json) ==
    <<prev_hash, timestamp_ms, event_type, payload_json>>

AuditBlockNew(block_seq, session_id, timestamp_ms, prev_hash, event_type, payload_json) ==
    [block_seq    |-> block_seq,
     session_id   |-> session_id,
     timestamp_ms |-> timestamp_ms,
     prev_hash    |-> prev_hash,
     event_type   |-> event_type,
     payload_json |-> payload_json,
     block_hash   |-> compute_hash(prev_hash, timestamp_ms, event_type, payload_json)]

verify(block) ==
    compute_hash(block.prev_hash, block.timestamp_ms, block.event_type,
                 block.payload_json) = block.block_hash

\* ------------------------------------------------------------------------
\* audit.rs : AuditLogger
\* ------------------------------------------------------------------------
NoBlock == [block_seq |-> -1]

IdleTask ==
    [pc |-> "idle", timestamp_ms |-> 0, event_type |-> "", payload_json |-> "",
     session_id |-> "", block |-> NoBlock, result |-> "none",
     entry_state |-> [block_seq |-> 0, last_hash |-> GENESIS_HASH]]

AuditLoggerNew ==
    /\ audit_state = [block_seq |-> 0, last_hash |-> GENESIS_HASH]
    /\ audit_session_id = "default"

InitAudit ==
    /\ AuditLoggerNew
    /\ audit_task = [t \in AuditTasks |-> IdleTask]
    /\ audit_file = <<>>
    /\ audit_blocks = <<>>
    /\ audit_calls = 0
    /\ replay = <<>>
    /\ tamper = [idx |-> 0, field |-> "none"]

\* set_session: rebinds the id used by later appends
set_session(id) ==
    /\ audit_session_id' = id
    /\ id # audit_session_id
    /\ UNCHANGED <<audit_state, audit_task, audit_file, audit_blocks,
                   audit_calls, replay, tamper>>

\* append, lines 159-165: read the clock, render the payload, clone the
\* session id under its read lock.  entry_state remembers the chain state the
\* call started from.
AppendBegin(t, event_type, payload, now) ==
    /\ audit_task[t].pc = "idle"
    /\ audit_calls < MaxAppends
    /\ tamper.field = "none"
    /\ audit_calls' = audit_calls + 1
    /\ audit_task' = [audit_task EXCEPT ![t] =
          [pc |-> "begun", timestamp_ms |-> now, event_type |-> event_type,
           payload_json |-> payload, session_id |-> audit_session_id,
           block |-> NoBlock, result |-> "none", entry_state |-> audit_state]]
    /\ UNCHANGED <<audit_state, audit_session_id, audit_file, audit_blocks,
                   replay, tamper>>

\* a tail that counts the block but keeps the old hash
AdvanceKeepHash(state, block) ==
    [block_seq |-> state.block_seq + 1, last_hash |-> state.last_hash]

\* the chain state after a block was built from it (lines 177-178)
Advance(state, block) ==
    [block_seq |-> state.block_seq + 1, last_hash |-> block.block_hash]

\* append, lines 167-180: under the state write lock build the block from the
\* tail and advance the tail
AppendBuild(t) ==
    /\ audit_task[t].pc = "begun"
    /\ LET block == AuditBlockNew(audit_state.block_seq, audit_task[t].session_id,
                                  audit_task[t].timestamp_ms, audit_state.last_hash,
                                  audit_task[t].event_type, audit_task[t].payload_json)
       IN /\ audit_state' = Advance(audit_state, block)
          /\ audit_blocks' = Append(audit_blocks, block)
          /\ audit_task' = [audit_task EXCEPT ![t].pc = "built", ![t].block = block]
    /\ UNCHANGED <<audit_session_id, audit_file, audit_calls, replay, tamper>>

\* the call returns (result names the way it ended): its locals are gone
AppendReturn(t, result) ==
    audit_task' = [audit_task EXCEPT ![t] = IdleTask]

\* append, lines 186-192: serde_json::to_string fails, the block is dropped
AppendSerializeFail(t) ==
    /\ audit_task[t].pc = "built"
    /\ AppendReturn(t, "dropped")
    /\ UNCHANGED <<audit_state, audit_session_id, audit_file, audit_blocks,
                   audit_calls, replay, tamper>>

\* append, lines 194-204: the file opens and the line is written
AppendWriteOk(t) ==
    /\ audit_task[t].pc = "built"
    /\ audit_file' = Append(audit_file, audit_task[t].block)
    /\ AppendReturn(t, "written")
    /\ UNCHANGED <<audit_state, audit_session_id, audit_blocks, audit_calls,
                   replay, tamper>>

\* append, lines 200-203: the file opens and write_all fails
AppendWriteFail(t) ==
    /\ audit_task[t].pc = "built"
    /\ AppendReturn(t, "write_failed")
    /\ UNCHANGED <<audit_state, audit_session_id, audit_file, audit_blocks,
                   audit_calls, replay, tamper>>

\* append, lines 205-211: the file does not open, the block goes to the
\* process log only
AppendOpenFail(t) ==
    /\ audit_task[t].pc = "built"
    /\ AppendReturn(t, "stdout")
    /\ UNCHANGED <<audit_state, audit_session_id, audit_file, audit_blocks,
                   audit_calls, replay, tamper>>

\* A holder of the stored chain alters one field of one block (the fields of
\* AuditBlock are plain public data); the altered copy is what a verifier
\* later reads back.  The copy is examined as it stands: no append follows.
BlockFields ==
    {"block_seq", "session_id", "timestamp_ms", "prev_hash", "event_type",
     "payload_json", "block_hash"}

FieldValues(field) ==
    CASE field = "block_seq"    -> 0..Len(audit_blocks)
      [] field = "session_id"   -> SessionIds \cup {"forged"}
      [] field = "timestamp_ms" -> Timestamps \cup {0}
      [] field = "prev_hash"    -> {GENESIS_HASH} \cup
                                     {audit_blocks[i].block_hash : i \in 1..Len(audit_blocks)}
      [] field = "event_type"   -> {"SESSION_EVENT", "RACE_STATUS_CHANGE"}
      [] field = "payload_json" -> Payloads \cup {"{\"a\":2}"}
      [] field = "block_hash"   -> {GENESIS_HASH} \cup
                                     {audit_blocks[i].block_hash : i \in 1..Len(audit_blocks)}

TamperBlock(n, field, v) ==
    /\ tamper.field = "none"
    /\ \A t \in AuditTasks : audit_task[t].pc = "idle"
    /\ n \in 1..Len(audit_blocks)
    /\ v # audit_blocks[n][field]
    /\ replay' = [audit_blocks EXCEPT ![n][field] = v]
    /\ tamper' = [idx |-> n, field |-> field]
    /\ UNCHANGED <<audit_state, audit_session_id, audit_task, audit_file,
                   audit_blocks, audit_calls>>

\* ------------------------------------------------------------------------
\* u32 arithmetic.  A u32 is the pair <<high 16 bits, low 16 bits>>, so that
\* values near 2^32 and the wrap-around are exact.
\* ------------------------------------------------------------------------
Limb == 2^16

U32FromNat(n) == <<(n \div Limb) % Limb, n % Limb>>
U32Zero == <<0, 0>>
U32Max == <<Limb - 1, Limb - 1>>

\* a.wrapping_sub(b)
wrapping_sub(a, b) ==
    LET lo == a[2] - b[2]
        borrow == IF lo < 0 THEN 1 ELSE 0
    IN <<(a[1] - b[1] - borrow) % Limb, lo % Limb>>

\* a.wrapping_add(b): how a node's counter moves from one packet to the next
wrapping_add(a, b) ==
    LET lo == a[2] + b[2]
        carry == IF lo >= Limb THEN 1 ELSE 0
    IN <<(a[1] + b[1] + carry) % Limb, lo % Limb>>

\* a > n and a < n for a u32 a and a natural n < 2^16
U32GtNat(a, n) == a[1] > 0 \/ a[2] > n
U32LtNat(a, n) == a[1] = 0 /\ a[2] < n

\* ------------------------------------------------------------------------
\* uwb_hub.rs : configuration, FusedNode, SeqTracker
\* ------------------------------------------------------------------------
\* lengths are in millimetres: 0.10 m is 100
DefaultOcsThreshold == 100
DefaultMinFixQuality == 60
\* uwb_hub.rs:139, the forward window of the sequence tracker
ReplayWindow == 1000
\* main.rs:181, capacity of the OcsEvent channel
OcsChannelCapacity == 64

UwbHubConfigDefault ==
    [ocs_threshold_m |-> DefaultOcsThreshold, min_fix_quality |-> DefaultMinFixQuality]

Nodes == {10, 11}

\* HashMap::get on a node the tracker has no entry for
NoEntry == <<-1, -1>>

\* a comparison that counts a fix on the threshold as over it
IsOcsAtOrOver(y_line_m, fix_quality, ocs_threshold, min_quality) ==
    y_line_m >= ocs_threshold /\ fix_quality >= min_quality

\* FusedNode::from_envelope, line 109
FusedIsOcs(y_line_m, fix_quality, ocs_threshold, min_quality) ==
    y_line_m > ocs_threshold /\ fix_quality >= min_quality

from_envelope(env, ocs_threshold, min_quality) ==
    [node_id     |-> env.node_id,
     y_line_m    |-> env.y_line_m,
     fix_quality |-> env.fix_quality,
     is_ocs      |-> FusedIsOcs(env.y_line_m, env.fix_quality, ocs_threshold, min_quality),
     dtl_cm      |-> env.y_line_m \div 10]

\* self.last_seq.entry(node_id).or_insert(0)
EntryOrInsert(ls, node_id) == IF ls[node_id] = NoEntry THEN U32Zero ELSE ls[node_id]

\* a tracker that lets an exact duplicate through
AcceptDuplicates(ls, node_id, seq_num) ==
    LET last == EntryOrInsert(ls, node_id)
        diff == wrapping_sub(seq_num, last)
    IN IF U32GtNat(diff, ReplayWindow)
       THEN [accepted |-> FALSE, last_seq |-> [ls EXCEPT ![node_id] = last]]
       ELSE [accepted |-> TRUE, last_seq |-> [ls EXCEPT ![node_id] = seq_num]]

\* a tracker that follows a rejected packet's seq_num
AcceptFollowingJumps(ls, node_id, seq_num) ==
    LET last == EntryOrInsert(ls, node_id)
        diff == wrapping_sub(seq_num, last)
    IN IF diff = U32Zero \/ U32GtNat(diff, ReplayWindow)
       THEN [accepted |-> FALSE, last_seq |-> [ls EXCEPT ![node_id] = seq_num]]
       ELSE [accepted |-> TRUE, last_seq |-> [ls EXCEPT ![node_id] = seq_num]]

\* SeqTracker::accept: the verdict and the tracker afterwards
accept(ls, node_id, seq_num) ==
    LET last == EntryOrInsert(ls, node_id)
        diff == wrapping_sub(seq_num, last)
    IN IF diff = U32Zero \/ U32GtNat(diff, ReplayWindow)
       THEN [accepted |-> FALSE, last_seq |-> [ls EXCEPT ![node_id] = last]]
       ELSE [accepted |-> TRUE, last_seq |-> [ls EXCEPT ![node_id] = seq_num]]

\* mpsc::Sender::try_send on the bounded channel: refused when full
\* a channel that refuses an event when one slot is left
TrySendKeepingOneFree(chan, ev) ==
    IF Len(chan) + 1 < OcsChannelCapacity THEN Append(chan, ev) ELSE chan

try_send(chan, ev) ==
    IF Len(chan) < OcsChannelCapacity THEN Append(chan, ev) ELSE chan

\* hub_last also keeps what the datagram met: the tracker value, the channel
\* and the audit chain before the call
NoPacket ==
    [kind |-> "none", node_id |-> 0, seq_num |-> U32Zero, accepted |-> FALSE,
     is_ocs |-> FALSE, replayed |-> FALSE, sent |-> FALSE,
     first |-> FALSE,    \* the tracker had no entry for the node
     last_before |-> U32Zero, chan_before |-> <<>>, audit_before |-> <<>>]

\* the tracker contents the hub is observed from: any content is reachable by
\* a long enough run of packets; these are the ones next to the wrap-around
StartLasts == {NoEntry, U32Max}

InitHub ==
    /\ hub_config = UwbHubConfigDefault
    /\ last_seq \in [Nodes -> StartLasts]
    /\ ocs_chan = <<>>
    /\ ocs_delivered = <<>>
    /\ hub_last = NoPacket
    /\ hub_accepted = {}
    /\ hub_pkts = 0

\* process_packet, lines 205-211: the datagram is not a valid envelope
ProcessMalformed ==
    /\ hub_pkts' = hub_pkts
    /\ hub_last' = [NoPacket EXCEPT !.kind = "malformed",
                                    !.chan_before = ocs_chan,
                                    !.audit_before = audit_blocks]
    /\ UNCHANGED <<hub_config, last_seq, ocs_chan, ocs_delivered, hub_accepted>>

\* process_packet, lines 213-236, on a well-formed envelope
process_packet(env) ==
    /\ accept(last_seq, env.node_id, env.seq_num).accepted => hub_pkts < MaxPackets
    /\ hub_pkts' = hub_pkts
                     + (IF accept(last_seq, env.node_id, env.seq_num).accepted THEN 1 ELSE 0)
    /\ LET verdict == accept(last_seq, env.node_id, env.seq_num)
           node == from_envelope(env, hub_config.ocs_threshold_m,
                                 hub_config.min_fix_quality)
           send == verdict.accepted /\ (node.is_ocs \/ env.batch_mode) /\ node.is_ocs
       IN /\ last_seq' = verdict.last_seq
          /\ ocs_chan' = IF send THEN try_send(ocs_chan, [boats |-> <<node>>])
                         ELSE ocs_chan
          /\ hub_accepted' = IF verdict.accepted
                             THEN hub_accepted \cup {<<env.node_id, env.seq_num>>}
                             ELSE hub_accepted
          /\ hub_last' = [kind |-> "envelope", node_id |-> env.node_id,
                          seq_num |-> env.seq_num, accepted |-> verdict.accepted,
                          is_ocs |-> node.is_ocs,
                          replayed |-> <<env.node_id, env.seq_num>> \in hub_accepted,
                          sent |-> send /\ Len(ocs_chan) < OcsChannelCapacity,
                          first |-> last_seq[env.node_id] = NoEntry,
                          last_before |-> EntryOrInsert(last_seq, env.node_id),
                          chan_before |-> ocs_chan,
                          audit_before |-> audit_blocks]
    /\ UNCHANGED <<hub_config, ocs_delivered>>

\* the datagrams of this model: a node's next seq_num lies a chosen distance
\* (mod 2^32) from the value the tracker holds for it
SeqDeltas ==
    {U32Zero, U32FromNat(1), U32FromNat(ReplayWindow - 1), U32FromNat(ReplayWindow),
     U32FromNat(ReplayWindow + 1), U32FromNat(ReplayWindow + 2), U32Max}

\* (y_line_m in mm, fix_quality, batch_mode) of the envelopes: over the line
\* with a good fix, on the threshold, over the line with a poor fix, and a
\* batch solve of a boat behind the line
EnvelopeFixes == {<<150, 80, FALSE>>, <<100, 80, FALSE>>, <<150, 59, FALSE>>,
                  <<-50, 80, TRUE>>}

Envelope(node_id, seq_num, fix) ==
    [node_id |-> node_id, seq_num |-> seq_num, y_line_m |-> fix[1],
     fix_quality |-> fix[2], batch_mode |-> fix[3]]

ReceiveEnvelope ==
    \E node_id \in Nodes, d \in SeqDeltas, fix \in EnvelopeFixes :
        process_packet(Envelope(node_id,
                                wrapping_add(EntryOrInsert(last_seq, node_id), d),
                                fix))

\* ------------------------------------------------------------------------
\* OCS determination: trilateration.rs detect_ocs, uwb-types NodePosition2D
\* ------------------------------------------------------------------------
\* fix_qualities.get(&node_id).copied().unwrap_or(0); -1 stands for a node the
\* map has no entry for
UnknownQuality == -1

FixQualityOrZero(fix_qualities, node_id) ==
    IF fix_qualities[node_id] = UnknownQuality THEN 0 ELSE fix_qualities[node_id]

\* detect_ocs: the node ids of the detections it returns
detect_ocs(positions, fix_qualities, ocs_threshold_m, min_fix_quality) ==
    {node_id \in DOMAIN positions :
        /\ positions[node_id] > ocs_threshold_m
        /\ FixQualityOrZero(fix_qualities, node_id) >= min_fix_quality}

\* NodePosition2D::is_ocs: the thresholds are the literals 0.10 and 60
is_ocs(y_line_m, fix_quality) == y_line_m > 100 /\ fix_quality >= 60

\* y_line in mm and fix qualities (u8) around the thresholds
YLines == {-1000, 0, 99, 100, 101, 150}
FixQualities == {0, 59, 60, 61, 255}
OcsThresholds == {0, DefaultOcsThreshold}
MinFixQualities == {0, DefaultMinFixQuality, 61}

NoOcsResult == [kind |-> "none"]

InitOcs ==
    /\ ocs_case \in [node_id : Nodes, y_line_m : YLines,
                     fix_quality : FixQualities \cup {UnknownQuality},
                     ocs_threshold_m : OcsThresholds,
                     min_fix_quality : MinFixQualities]
    /\ ocs_result = NoOcsResult

\* detect_ocs over a solve result holding the node
RunDetectOcs ==
    /\ ocs_result = NoOcsResult
    /\ ocs_result' =
         [kind |-> "detect_ocs",
          ocs  |-> ocs_case.node_id \in
                     detect_ocs([n \in {ocs_case.node_id} |-> ocs_case.y_line_m],
                                [n \in {ocs_case.node_id} |-> ocs_case.fix_quality],
                                ocs_case.ocs_threshold_m, ocs_case.min_fix_quality)]
    /\ UNCHANGED ocs_case

\* FusedNode::from_envelope on an envelope carrying the fix (an envelope always
\* carries a fix_quality)
RunFromEnvelope ==
    /\ ocs_result = NoOcsResult
    /\ ocs_case.fix_quality # UnknownQuality
    /\ ocs_result' =
         [kind |-> "from_envelope",
          ocs  |-> from_envelope(
                     Envelope(ocs_case.node_id, U32Zero,
                              <<ocs_case.y_line_m, ocs_case.fix_quality, FALSE>>),
                     ocs_case.ocs_threshold_m, ocs_case.min_fix_quality).is_ocs]
    /\ UNCHANGED ocs_case

\* NodePosition2D::is_ocs on a position carrying the fix
RunIsOcs ==
    /\ ocs_result = NoOcsResult
    /\ ocs_case.fix_quality # UnknownQuality
    /\ ocs_result' = [kind |-> "is_ocs",
                      ocs  |-> is_ocs(ocs_case.y_line_m, ocs_case.fix_quality)]
    /\ UNCHANGED ocs_case

\* ------------------------------------------------------------------------
\* state.rs / procedure_engine.rs : the procedure graph and the engine.
\* Time is counted in units of 100 ms.  An Instant is kept as its age (the time
\* since it was taken), which is what every use, Instant::elapsed, reads; ages
\* stop growing at ClockCap, above every duration they are compared with.
\* ------------------------------------------------------------------------
None == "none"
NoInstant == -1
Sec(n) == n * 10
\* f64::ceil of a non-negative time in units, in whole seconds
CeilSec(units) == (units + 9) \div 10
Max(a, b) == IF a >= b THEN a ELSE b
Min(a, b) == IF a <= b THEN a ELSE b
ClockCap == Sec(180) + 5
Age(t, d) == IF t = NoInstant THEN NoInstant ELSE Min(t + d, ClockCap)

\* a ProcedureNode with its ProcedureNodeData; pt_duration and pt_flags are
\* post_trigger_duration and post_trigger_flags
ProcedureNode(id, label, flags, duration, sound, wait, action_label, pt_duration, pt_flags, race_status) ==
    [id |-> id, label |-> label, flags |-> flags, duration |-> duration,
     sound |-> sound, sound_on_remove |-> "NONE",
     wait_for_user_trigger |-> wait, action_label |-> action_label,
     post_trigger_duration |-> pt_duration,
     post_trigger_flags |-> pt_flags, race_status |-> race_status]

ProcedureEdge(source, target) == [source |-> source, target |-> target]

NoGraph == [id |-> None, nodes |-> <<>>, edges |-> <<>>, auto_restart |-> FALSE]

\* handlers.rs standard_procedure(minutes, prep_flag)
standard_procedure(minutes, prep_flag) ==
    LET prep_dur == IF minutes = 3 THEN Sec(60) ELSE Sec(180)
    IN [id |-> IF minutes = 3 THEN "standard-3min" ELSE "standard-5min",
        nodes |-> <<
          ProcedureNode("0", "Idle", <<>>, 0, "NONE", FALSE, None, 0, <<>>, "IDLE"),
          ProcedureNode("1", "Warning Signal", <<"CLASS">>, Sec(60), "ONE_SHORT",
                        FALSE, None, 0, <<>>, "WARNING"),
          ProcedureNode("2", "Preparatory Signal", <<"CLASS", prep_flag>>, prep_dur,
                        "ONE_SHORT", FALSE, None, 0, <<>>, "PREPARATORY"),
          ProcedureNode("3", "One-Minute", <<"CLASS">>, Sec(60), "ONE_LONG",
                        FALSE, None, 0, <<>>, "ONE_MINUTE"),
          ProcedureNode("4", "Start", <<>>, 0, "ONE_SHORT", FALSE, None, 0, <<>>,
                        "RACING"),
          ProcedureNode("5", "Racing", <<>>, 0, "NONE", TRUE,
                        "FINISH RACE - End racing", 0, <<>>, "RACING") >>,
        edges |-> << ProcedureEdge("0", "1"), ProcedureEdge("1", "2"),
                     ProcedureEdge("2", "3"), ProcedureEdge("3", "4"),
                     ProcedureEdge("4", "5") >>,
        auto_restart |-> FALSE]

\* the keywords current_race_status looks for that a (lower-cased) label holds
LabelWords(label) ==
    CASE label = "Idle"               -> {"idle"}
      [] label = "Warning Signal"     -> {"warning"}
      [] label = "Preparatory Signal" -> {"preparatory", "prep"}
      [] label = "One-Minute"         -> {"one-minute"}
      [] label = "Start"              -> {"start"}
      [] label = "Racing"             -> {"racing"}
      [] label = "Race Start"         -> {"race", "start"}
      [] OTHER                        -> {}

\* graph.nodes.iter().find(|n| n.id == id): the index of the first such node, 0 if none
FindNode(graph, id) ==
    LET hits == {i \in 1..Len(graph.nodes) : graph.nodes[i].id = id}
    IN IF hits = {} THEN 0 ELSE CHOOSE i \in hits : \A j \in hits : i <= j

\* get_next_node_id: the target of the first edge leaving node_id
get_next_node_id(graph, node_id) ==
    LET hits == {i \in 1..Len(graph.edges) : graph.edges[i].source = node_id}
    IN IF hits = {} THEN None
       ELSE graph.edges[CHOOSE i \in hits : \A j \in hits : i <= j].target

ProcedureEngineNew ==
    [graph |-> NoGraph, current_node_id |-> None, node_started_at |-> NoInstant,
     sequence_started_at |-> NoInstant, is_post_trigger |-> FALSE,
     post_trigger_started_at |-> NoInstant]

load_procedure(e, graph) == [e EXCEPT !.graph = graph, !.current_node_id = None]

is_running(e) == e.current_node_id # None

RaceStatusOfString(status_str) ==
    IF status_str \in {"IDLE", "WARNING", "PREPARATORY", "ONE_MINUTE", "RACING",
                       "FINISHED", "POSTPONED", "INDIVIDUAL_RECALL",
                       "GENERAL_RECALL", "ABANDONED"}
    THEN status_str ELSE "IDLE"

current_race_status(e) ==
    IF e.graph = NoGraph \/ e.current_node_id = None THEN "IDLE"
    ELSE LET i == FindNode(e.graph, e.current_node_id) IN
         IF i = 0 THEN "IDLE"
         ELSE LET node == e.graph.nodes[i]
                  words == LabelWords(node.label)
              IN IF node.race_status # None THEN RaceStatusOfString(node.race_status)
                 ELSE IF "warning" \in words THEN "WARNING"
                 ELSE IF "preparatory" \in words \/ "prep" \in words THEN "PREPARATORY"
                 ELSE IF {"one-minute", "one minute", "1-minute"} \cap words # {}
                      THEN "ONE_MINUTE"
                 ELSE IF "start" \in words THEN "ONE_MINUTE"
                 ELSE IF "racing" \in words \/ "race" \in words THEN "RACING"
                 ELSE IF "idle" \in words THEN "IDLE"
                 ELSE "WARNING"

RECURSIVE WalkDurations(_, _, _)
\* the loop of calculate_total_remaining: durations of the successors, with
\* the visited set as loop guard
WalkDurations(graph, next_id, visited) ==
    IF next_id = None \/ next_id \in visited THEN 0
    ELSE LET i == FindNode(graph, next_id) IN
         IF i = 0 THEN 0
         ELSE graph.nodes[i].duration
              + WalkDurations(graph, get_next_node_id(graph, next_id),
                              visited \cup {next_id})

\* a total that counts the current node only
RemainingOfCurrentNode(e, current_node, elapsed_in_node) ==
    IF e.graph = NoGraph THEN 0
    ELSE CeilSec(Max(0, current_node.duration - elapsed_in_node))

calculate_total_remaining(e, current_node, elapsed_in_node) ==
    IF e.graph = NoGraph THEN 0
    ELSE CeilSec(Max(0, Max(0, current_node.duration - elapsed_in_node)
                        + WalkDurations(e.graph,
                                        get_next_node_id(e.graph, current_node.id),
                                        {current_node.id})))

NoUpdate ==
    [some |-> FALSE, status |-> "IDLE", current_sequence |-> [event |-> None, flags |-> <<>>],
     sequence_time_remaining |-> 0, node_time_remaining |-> 0,
     current_node_id |-> None, waiting_for_trigger |-> FALSE,
     action_label |-> None, is_post_trigger |-> FALSE, sound |-> "NONE"]

build_update(e) ==
    IF e.graph = NoGraph \/ e.current_node_id = None \/ e.node_started_at = NoInstant
    THEN NoUpdate
    ELSE LET i == FindNode(e.graph, e.current_node_id) IN
    IF i = 0 THEN NoUpdate
    ELSE IF e.is_post_trigger /\ e.post_trigger_started_at = NoInstant THEN NoUpdate
    ELSE
      LET current_node == e.graph.nodes[i]
          elapsed == e.node_started_at
          duration == current_node.duration
          is_waiting == /\ ~e.is_post_trigger
                        /\ current_node.wait_for_user_trigger
                        /\ (duration = 0 \/ elapsed >= duration)
          node_remaining ==
              IF e.is_post_trigger
              THEN CeilSec(Max(0, current_node.post_trigger_duration
                                  - e.post_trigger_started_at))
              ELSE IF duration > 0 THEN CeilSec(Max(0, duration - elapsed)) ELSE 0
          active_flags ==
              IF e.is_post_trigger /\ current_node.post_trigger_flags # <<>>
              THEN current_node.post_trigger_flags ELSE current_node.flags
      IN [some |-> TRUE,
          status |-> current_race_status(e),
          current_sequence |-> [event |-> current_node.label, flags |-> active_flags],
          sequence_time_remaining |->
              calculate_total_remaining(e, current_node, elapsed),
          node_time_remaining |-> node_remaining,
          current_node_id |-> e.current_node_id,
          waiting_for_trigger |-> is_waiting,
          action_label |-> current_node.action_label,
          is_post_trigger |-> e.is_post_trigger,
          sound |-> IF elapsed < 3 /\ ~e.is_post_trigger
                    THEN current_node.sound ELSE "NONE"]

\* a TickResult together with the engine after the call
TickResult(kind, e) ==
    [kind |-> kind, upd |-> IF kind = "Update" THEN build_update(e) ELSE NoUpdate,
     eng |-> e]

\* match self.build_update() { Some(u) => Update(u), None => Idle }
UpdateOrIdle(e) ==
    IF build_update(e).some THEN TickResult("Update", e) ELSE TickResult("Idle", e)

\* entering a node without stamping its entry
EnterNodeKeepingClock(e, id) ==
    [e EXCEPT !.current_node_id = id,
              !.node_started_at = IF @ = NoInstant THEN 0 ELSE @,
              !.is_post_trigger = FALSE, !.post_trigger_started_at = NoInstant]

EnterNode(e, id) ==
    [e EXCEPT !.current_node_id = id, !.node_started_at = 0,
              !.is_post_trigger = FALSE, !.post_trigger_started_at = NoInstant]

ClearRuntime(e) ==
    [e EXCEPT !.current_node_id = None, !.node_started_at = NoInstant,
              !.is_post_trigger = FALSE, !.post_trigger_started_at = NoInstant]

\* a transition that ends the sequence whatever auto_restart says
TransitionNextNoRestart(e) ==
    IF e.current_node_id = None THEN TickResult("Idle", e)
    ELSE LET next_id == IF e.graph = NoGraph THEN None
                        ELSE get_next_node_id(e.graph, e.current_node_id)
         IN IF next_id # None THEN UpdateOrIdle(EnterNode(e, next_id))
            ELSE TickResult("SequenceComplete", ClearRuntime(e))

transition_next(e) ==
    IF e.current_node_id = None THEN TickResult("Idle", e)
    ELSE LET next_id == IF e.graph = NoGraph THEN None
                        ELSE get_next_node_id(e.graph, e.current_node_id)
         IN IF next_id # None THEN UpdateOrIdle(EnterNode(e, next_id))
            ELSE IF e.graph # NoGraph /\ e.graph.auto_restart /\ Len(e.graph.nodes) > 0
                 THEN UpdateOrIdle(EnterNode(e, e.graph.nodes[1].id))
            ELSE TickResult("SequenceComplete", ClearRuntime(e))

EnterPostTrigger(e) ==
    [e EXCEPT !.is_post_trigger = TRUE, !.post_trigger_started_at = 0]

\* a tick that lets a timed-out node go on without the director's trigger
TickIgnoringTrigger(e) ==
    IF e.graph = NoGraph \/ e.current_node_id = None \/ e.node_started_at = NoInstant
    THEN TickResult("Idle", e)
    ELSE LET i == FindNode(e.graph, e.current_node_id) IN
    IF i = 0 THEN TickResult("Idle", e)
    ELSE
      LET current_node == e.graph.nodes[i]
          elapsed == e.node_started_at
          duration == current_node.duration
          is_waiting == current_node.wait_for_user_trigger /\ duration = 0
      IN IF e.is_post_trigger
         THEN IF e.post_trigger_started_at = NoInstant THEN TickResult("Idle", e)
              ELSE IF e.post_trigger_started_at >= current_node.post_trigger_duration
                   THEN transition_next(e)
                   ELSE UpdateOrIdle(e)
         ELSE IF duration > 0 /\ elapsed >= duration /\ ~is_waiting
              THEN IF current_node.post_trigger_duration > 0
                   THEN UpdateOrIdle(EnterPostTrigger(e))
                   ELSE transition_next(e)
              ELSE IF duration = 0 /\ ~is_waiting THEN transition_next(e)
              ELSE UpdateOrIdle(e)

\* a tick that leaves a timed-out node without its post-trigger countdown
TickSkippingPostTrigger(e) ==
    IF e.graph = NoGraph \/ e.current_node_id = None \/ e.node_started_at = NoInstant
    THEN TickResult("Idle", e)
    ELSE LET i == FindNode(e.graph, e.current_node_id) IN
    IF i = 0 THEN TickResult("Idle", e)
    ELSE
      LET current_node == e.graph.nodes[i]
          elapsed == e.node_started_at
          duration == current_node.duration
          is_waiting == current_node.wait_for_user_trigger
                        /\ (duration = 0 \/ elapsed >= duration)
      IN IF e.is_post_trigger
         THEN IF e.post_trigger_started_at = NoInstant THEN TickResult("Idle", e)
              ELSE IF e.post_trigger_started_at >= current_node.post_trigger_duration
                   THEN transition_next(e)
                   ELSE UpdateOrIdle(e)
         ELSE IF duration > 0 /\ elapsed >= duration /\ ~is_waiting
              THEN transition_next(e)
              ELSE IF duration = 0 /\ ~is_waiting THEN transition_next(e)
              ELSE UpdateOrIdle(e)

tick(e) ==
    IF e.graph = NoGraph \/ e.current_node_id = None \/ e.node_started_at = NoInstant
    THEN TickResult("Idle", e)
    ELSE LET i == FindNode(e.graph, e.current_node_id) IN
    IF i = 0 THEN TickResult("Idle", e)
    ELSE
      LET current_node == e.graph.nodes[i]
          elapsed == e.node_started_at
          duration == current_node.duration
          is_waiting == current_node.wait_for_user_trigger
                        /\ (duration = 0 \/ elapsed >= duration)
      IN IF e.is_post_trigger
         THEN IF e.post_trigger_started_at = NoInstant THEN TickResult("Idle", e)
              ELSE IF e.post_trigger_started_at >= current_node.post_trigger_duration
                   THEN transition_next(e)
                   ELSE UpdateOrIdle(e)
         ELSE IF duration > 0 /\ elapsed >= duration /\ ~is_waiting
              THEN IF current_node.post_trigger_duration > 0
                   THEN UpdateOrIdle(EnterPostTrigger(e))
                   ELSE transition_next(e)
              ELSE IF duration = 0 /\ ~is_waiting THEN transition_next(e)
              ELSE UpdateOrIdle(e)

\* start, jump_to_node, resume_sequence: the Option<SequenceUpdate> returned
\* (upd) and the engine afterwards (eng)
Returned(upd, e) == [upd |-> upd, eng |-> e]

\* a start that always takes the first declared node
StartAtFirstNode(e) ==
    IF e.graph = NoGraph \/ Len(e.graph.nodes) = 0 THEN Returned(NoUpdate, e)
    ELSE LET started == [EnterNode(e, e.graph.nodes[1].id) EXCEPT
                             !.sequence_started_at = 0]
         IN Returned(build_update(started), started)

start(e) ==
    IF e.graph = NoGraph \/ Len(e.graph.nodes) = 0 THEN Returned(NoUpdate, e)
    ELSE LET i == FindNode(e.graph, "1")
             start_node == IF i # 0 THEN e.graph.nodes[i] ELSE e.graph.nodes[1]
             started == [EnterNode(e, start_node.id) EXCEPT !.sequence_started_at = 0]
         IN Returned(build_update(started), started)

stop(e) == ClearRuntime(e)

\* a jump that leaves the post-trigger phase as it finds it
JumpKeepingPostTrigger(e, node_id) ==
    IF e.graph = NoGraph \/ FindNode(e.graph, node_id) = 0 THEN Returned(NoUpdate, e)
    ELSE LET jumped == [e EXCEPT !.current_node_id = node_id, !.node_started_at = 0,
                                 !.sequence_started_at = 0]
         IN Returned(build_update(jumped), jumped)

jump_to_node(e, node_id) ==
    IF e.graph = NoGraph \/ FindNode(e.graph, node_id) = 0 THEN Returned(NoUpdate, e)
    ELSE LET jumped == [EnterNode(e, node_id) EXCEPT !.sequence_started_at = 0]
         IN Returned(build_update(jumped), jumped)

\* a resume that always goes on to the next node
ResumeSkippingPostTrigger(e) ==
    IF e.current_node_id = None \/ e.graph = NoGraph THEN Returned(NoUpdate, e)
    ELSE LET i == FindNode(e.graph, e.current_node_id) IN
    IF i = 0 THEN Returned(NoUpdate, e)
    ELSE LET r == transition_next(e) IN Returned(r.upd, r.eng)

resume_sequence(e) ==
    IF e.current_node_id = None \/ e.graph = NoGraph THEN Returned(NoUpdate, e)
    ELSE LET i == FindNode(e.graph, e.current_node_id) IN
    IF i = 0 THEN Returned(NoUpdate, e)
    ELSE IF ~e.is_post_trigger /\ e.graph.nodes[i].post_trigger_duration > 0
         THEN Returned(build_update(EnterPostTrigger(e)), EnterPostTrigger(e))
         ELSE LET r == transition_next(e) IN Returned(r.upd, r.eng)

update_node_duration(e, node_id, new_duration) ==
    IF e.graph = NoGraph \/ FindNode(e.graph, node_id) = 0 THEN e
    ELSE [e EXCEPT !.graph.nodes[FindNode(e.graph, node_id)].duration = new_duration]

\* ------------------------------------------------------------------------
\* state.rs : RaceState, and the tasks main.rs starts
\* ------------------------------------------------------------------------
NoSequence == [event |-> None, flags |-> <<>>]
\* sequence_time_remaining: None
NoTime == -1
\* handlers.rs:58, the log keeps its latest 100 entries
LogCap == 100

RaceStateDefault ==
    [status |-> "IDLE", current_sequence |-> NoSequence, prep_flag |-> "P",
     sequence_time_remaining |-> NoTime, current_procedure |-> NoGraph,
     current_node_id |-> None, waiting_for_trigger |-> FALSE,
     action_label |-> None, is_post_trigger |-> FALSE, ocs_boats |-> <<>>,
     penalties |-> <<>>, logs |-> <<>>]

Workers == {"w1", "w2"}

IdleWorker ==
    [kind |-> "idle", pc |-> "done", action |-> None, node_id |-> None,
     minutes |-> 0, prep_flag |-> None, new_status |-> None, graph |-> NoGraph,
     boats |-> <<>>, upd |-> NoUpdate, status |-> "IDLE", sleep |-> 0,
     message |-> None, expect |-> None,
     overtaken |-> FALSE,   \* a later action changed the status this task wrote
     latest |-> FALSE,      \* no command came after the one this task serves
     alone |-> FALSE,       \* nor was another task at work when it came
     tick_seen |-> -1]      \* the tick that was under way when this task stopped
                            \* the engine

NoLock == [writer |-> None, readers |-> {}]

\* run_engine_tick before its first interval.tick() completes, phase tenths of
\* a second ahead of the first command
TickTaskAt(phase) ==
    [pc |-> "wait", wait |-> phase, result |-> "Idle", upd |-> NoUpdate,
     engine_status |-> "IDLE",
     stale |-> FALSE]   \* an action stopped the engine and wrote its status
                        \* after this tick's engine step

\* the block main.rs appends at start-up, before any other task runs
ServerStartBlock ==
    AuditBlockNew(0, "default", 1, GENESIS_HASH, "SESSION_EVENT",
                  "{\"event\":\"server_start\"}")

\* the audit logger once main.rs has logged server_start
AuditStarted ==
    /\ audit_state = Advance([block_seq |-> 0, last_hash |-> GENESIS_HASH],
                             ServerStartBlock)
    /\ audit_session_id = "default"
    /\ audit_task = [t \in AuditTasks |-> IdleTask]
    /\ audit_file = <<ServerStartBlock>>
    /\ audit_blocks = <<ServerStartBlock>>
    /\ audit_calls = 1
    /\ replay = <<>>
    /\ tamper = [idx |-> 0, field |-> "none"]

HubNotStarted ==
    /\ hub_config = UwbHubConfigDefault
    /\ last_seq = [n \in Nodes |-> NoEntry]
    /\ ocs_chan = <<>>
    /\ ocs_delivered = <<>>
    /\ hub_last = NoPacket
    /\ hub_accepted = {}
    /\ hub_pkts = 0

OcsNotRun ==
    /\ ocs_case = [node_id |-> 10, y_line_m |-> 0, fix_quality |-> 0,
                   ocs_threshold_m |-> DefaultOcsThreshold,
                   min_fix_quality |-> DefaultMinFixQuality]
    /\ ocs_result = NoOcsResult

\* no call made on the engine yet
NoCall == [op |-> None, arg |-> None, kind |-> "Idle", upd |-> NoUpdate,
           prev |-> NoUpdate]

\* ------------------------------------------------------------------------
\* persistence.rs
\* ------------------------------------------------------------------------
\* no state.json yet
NoFile == [exists |-> FALSE, state |-> RaceStateDefault]

\* save_state, lines 46-61: what is written.  A None field is left out of the
\* JSON and read back as None, so the file is kept as the RaceState it holds.
save_state(state) ==
    [state EXCEPT !.status = "IDLE", !.current_sequence = NoSequence,
                  !.sequence_time_remaining = NoTime, !.penalties = <<>>]

\* load_state, lines 11-43
load_state(file) ==
    IF ~file.exists THEN RaceStateDefault
    ELSE [file.state EXCEPT !.status = "IDLE", !.current_sequence = NoSequence,
                            !.sequence_time_remaining = NoTime]

\* ------------------------------------------------------------------------
\* trilateration.rs
\* ------------------------------------------------------------------------
\* Lengths are whole centimetres; a weight is kept WeightScale times and a
\* Jacobian entry JacobianScale times its value, and divisions round down.
WeightScale == 1000

JacobianScale == 16

Abs(n) == IF n < 0 THEN -n ELSE n

RECURSIVE SqrtFrom(_, _)
SqrtFrom(n, r) ==
    LET Next(next) == IF next >= r THEN r ELSE SqrtFrom(n, next)
    IN Next((r + n \div r) \div 2)

\* f32::sqrt, rounded down
Sqrt(n) == IF n = 0 THEN 0 ELSE SqrtFrom(n, n)

RangeMeasurement(node_i, node_j, range_m, nlos) ==
    [node_i |-> node_i, node_j |-> node_j, range_m |-> range_m,
     sigma_m |-> IF nlos THEN 20 ELSE 7, nlos |-> nlos]

\* huber_weight, lines 75-82, with delta = 0.15
huber_weight(residual, sigma) ==
    IF 100 * Abs(residual) <= 15 * sigma
    THEN WeightScale \div (sigma * sigma)
    ELSE (15 * WeightScale) \div (100 * Abs(residual) * sigma)

\* MAHAL_GATE, line 125: (residual / sigma)^2 > 9.0
MahalGate == 9

\* lines 102-109: the ids in the measurements that are no anchors, in order
UnknownIds(measurements, anchors) ==
    ({measurements[k].node_i : k \in 1..Len(measurements)} \cup
     {measurements[k].node_j : k \in 1..Len(measurements)}) \ DOMAIN anchors

RECURSIVE SortedIds(_)
SortedIds(ids) ==
    IF ids = {} THEN <<>>
    ELSE LET least == CHOOSE x \in ids : \A y \in ids : x <= y
         IN <<least>> \o SortedIds(ids \ {least})

\* the default guess of line 117: 50 m under the line
DefaultGuess == <<0, -5000>>

NoSums == [a00 |-> 0, a01 |-> 0, a10 |-> 0, a11 |-> 0, b0 |-> 0, b1 |-> 0,
           n_rejected |-> 0, sum_sq_res |-> 0, n_used |-> 0]

\* lines 141-180: one measurement's share of the normal equations of node id_i
AddMeasurement(sums, m, id_i, pi, anchors, positions) ==
    LET other == IF m.node_i = id_i THEN m.node_j ELSE m.node_i
        pj == IF other \in DOMAIN anchors THEN anchors[other] ELSE positions[other]
        \* lines 163-179: the weighted share of an accepted measurement
        Weighted(residual, w, jx, jy) ==
            [sums EXCEPT !.sum_sq_res = @ + residual * residual,
                         !.n_used = @ + 1,
                         !.a00 = @ + w * jx * jx, !.a01 = @ + w * jx * jy,
                         !.a10 = @ + w * jy * jx, !.a11 = @ + w * jy * jy,
                         !.b0 = @ + w * jx * residual,
                         !.b1 = @ + w * jy * residual]
        \* lines 158-161: the gate on the residual
        Gated(dx, dy, dist, residual) ==
            IF residual * residual > MahalGate * m.sigma_m * m.sigma_m
            THEN [sums EXCEPT !.n_rejected = @ + 1]
            ELSE Weighted(residual, huber_weight(residual, m.sigma_m),
                          (dx * JacobianScale) \div dist,
                          (dy * JacobianScale) \div dist)
        \* lines 154-156: the distance, at least 1 cm, and the residual
        Along(dx, dy, dist) == Gated(dx, dy, dist, m.range_m - dist)
        Ranged(dx, dy, root) == Along(dx, dy, IF root < 1 THEN 1 ELSE root)
        From(dx, dy) == Ranged(dx, dy, Sqrt(dx * dx + dy * dy))
    IN IF m.node_i # id_i /\ m.node_j # id_i THEN sums
       ELSE From(pi[1] - pj[1], pi[2] - pj[2])

RECURSIVE NormalEquations(_, _, _, _, _, _)
NormalEquations(sums, measurements, id_i, pi, anchors, positions) ==
    IF measurements = <<>> THEN sums
    ELSE NormalEquations(AddMeasurement(sums, Head(measurements), id_i, pi,
                                        anchors, positions),
                         Tail(measurements), id_i, pi, anchors, positions)

\* lines 135-195: the step of node id_i within a sweep
SolveNode(sweep, id_i, measurements, anchors) ==
    LET pi == sweep.positions[id_i]
        Counted(sums) == [sweep EXCEPT !.n_rejected = sums.n_rejected,
                                       !.sum_sq_res = sums.sum_sq_res,
                                       !.n_used = sums.n_used]
        \* lines 187-194: the node moves by <<dx, dy>>
        Moved(counted, dx, dy, update_norm) ==
            [counted EXCEPT
               !.max_update = IF update_norm > @ THEN update_norm ELSE @,
               !.positions[id_i] = <<pi[1] + dx, pi[2] + dy>>]
        Step(counted, dx, dy) == Moved(counted, dx, dy, Sqrt(dx * dx + dy * dy))
        \* lines 183-186: the 2x2 system is solved unless it is singular
        Solved(sums, det) ==
            IF det = 0 THEN Counted(sums)
            ELSE Step(Counted(sums),
                      (JacobianScale * (sums.a11 * sums.b0 - sums.a01 * sums.b1)) \div det,
                      (JacobianScale * (sums.a00 * sums.b1 - sums.a10 * sums.b0)) \div det)
        Normal(sums) == Solved(sums, sums.a00 * sums.a11 - sums.a01 * sums.a10)
    IN Normal(NormalEquations([NoSums EXCEPT !.n_rejected = sweep.n_rejected,
                                             !.sum_sq_res = sweep.sum_sq_res,
                                             !.n_used = sweep.n_used],
                              measurements, id_i, pi, anchors, sweep.positions))

RECURSIVE SolveNodes(_, _, _, _)
SolveNodes(sweep, ids, measurements, anchors) ==
    IF ids = <<>> THEN sweep
    ELSE SolveNodes(SolveNode(sweep, Head(ids), measurements, anchors), Tail(ids),
                    measurements, anchors)

\* lines 128-133, 135-195: one sweep over the unknown nodes
Sweep(positions, unknown_ids, measurements, anchors) ==
    SolveNodes([positions |-> positions, max_update |-> 0, n_rejected |-> 0,
                sum_sq_res |-> 0, n_used |-> 0],
               unknown_ids, measurements, anchors)

\* lines 199-202: the sweep ends the iteration
ConvergesAtThreshold(max_update, converge_threshold) ==
    max_update <= converge_threshold

Converges(max_update, converge_threshold) == max_update < converge_threshold

SolverIdle ==
    [pc |-> "idle", measurements |-> <<>>, max_iter |-> 0, converge_threshold |-> 0,
     unknown_ids |-> <<>>, positions |-> [id \in {} |-> <<0, 0>>], iter |-> 0,
     final_iter |-> 0, converged |-> FALSE, max_update |-> 0, n_rejected |-> 0,
     final_rms |-> 0, sweeps |-> 0, some |-> FALSE, n_measurements |-> U32Zero]

\* ------------------------------------------------------------------------
\* uwb_physics.rs : the fix quality of a node in generate_epoch
\* ------------------------------------------------------------------------
\* u32::saturating_sub
saturating_sub(a, b) == IF a >= b THEN a - b ELSE 0

FixQualityPlainSub(n_nlos, n_total) ==
    IF n_total = 0 THEN 0
    ELSE Min(70 - n_nlos * 12 + Min(n_total, 8) * 4, 100)

\* lines 213-218
fix_quality(n_nlos, n_total) ==
    IF n_total = 0 THEN 0
    ELSE Min(saturating_sub(70, n_nlos * 12) + Min(n_total, 8) * 4, 100)

\* no peer has been ranged yet
NoEpoch == [pc |-> "peers", peers |-> <<>>, quality |-> 0]

InitRaceAt(phase) ==
    /\ solver = SolverIdle
    /\ epoch = NoEpoch
    /\ disk = NoFile
    /\ boots = 0
    /\ eng_call = NoCall
    /\ eng_clock = 0
    /\ eng_calls = 0
    /\ engine = ProcedureEngineNew
    /\ race = RaceStateDefault
    /\ state_lock = NoLock
    /\ workers = [w \in Workers |-> IdleWorker]
    /\ tick_task = TickTaskAt(phase)
    /\ last_emit = <<>>
    /\ commands = 0
    /\ ticks = 0
    /\ status_changes = 0

\* ------------------------------------------------------------------------
\* The RwLock of SharedState.  An engine guard is never held across an await,
\* so every engine access is one step; a SharedState guard is held across the
\* await inside emit_log by some handlers, so the lock is a variable.
\* ------------------------------------------------------------------------
LockFree == state_lock.writer = None /\ state_lock.readers = {}

\* a write to RaceState, counting the writes that change its status
WriteState(new_race) ==
    /\ race' = new_race
    /\ status_changes' = status_changes + (IF new_race.status # race.status THEN 1 ELSE 0)

Emitted(event, status, upd) == [event |-> event, status |-> status, upd |-> upd]

SequenceUpdateEmits(upd) ==
    IF upd.some THEN <<Emitted("sequence-update", upd.status, upd)>> ELSE <<>>

StateUpdateEmit(r) == Emitted("state-update", r.status, NoUpdate)

\* state.current_sequence / sequence_time_remaining = Some(..) from an update
WithUpdate(r, upd) ==
    IF upd.some
    THEN [r EXCEPT !.current_sequence = upd.current_sequence,
                   !.sequence_time_remaining = upd.sequence_time_remaining]
    ELSE r

PrepFlagOf(prep_flag_str) ==
    IF prep_flag_str \in {"I", "Z", "U", "BLACK"} THEN prep_flag_str ELSE "P"

\* emit_log, lines 54-61: push the entry, keep the latest LogCap
PushLog(logs, message) ==
    LET pushed == Append(logs, message)
    IN IF Len(pushed) > LogCap THEN Tail(pushed) ELSE pushed

Goto(w, pc) == workers' = [workers EXCEPT ![w].pc = pc]

Finish(w) == workers' = [workers EXCEPT ![w] = IdleWorker]

\* ------------------------------------------------------------------------
\* handlers.rs : a director command arrives and its handler task starts
\* ------------------------------------------------------------------------
StopActions == {"POSTPONE", "GENERAL_RECALL", "ABANDON", "RESET"}
LogOnlyActions == {"SHORTEN_COURSE", "COURSE_CHANGE"}
ProcedureActions == StopActions \cup LogOnlyActions \cup {"INDIVIDUAL_RECALL"}

ActionMessage(action) ==
    CASE action = "POSTPONE"          -> "Race postponed"
      [] action = "INDIVIDUAL_RECALL" -> "Individual Recall"
      [] action = "GENERAL_RECALL"    -> "General Recall"
      [] action = "ABANDON"           -> "Race abandoned"
      [] action = "SHORTEN_COURSE"    -> "Shorten Course"
      [] action = "COURSE_CHANGE"     -> "Course Change"
      [] action = "RESET"             -> "Race reset to Idle"

\* a graph the architect deploys: a short warning, then the start, where the
\* sequence completes
ShortGraph ==
    [id |-> "short",
     nodes |-> << ProcedureNode("1", "Warning Signal", <<"CLASS">>, 2, "ONE_SHORT",
                                FALSE, None, 0, <<>>, "WARNING"),
                  ProcedureNode("2", "Start", <<>>, 0, "ONE_SHORT", FALSE, None, 0,
                                <<>>, "RACING") >>,
     edges |-> << ProcedureEdge("1", "2") >>,
     auto_restart |-> FALSE]

\* a graph whose first node waits for the director and then runs a
\* post-trigger countdown
TriggerGraph ==
    [id |-> "trigger",
     nodes |-> << ProcedureNode("1", "Warning Signal", <<"CLASS">>, 2, "ONE_SHORT",
                                TRUE, "GO", 2, <<"P">>, "WARNING"),
                  ProcedureNode("2", "Racing", <<>>, 0, "NONE", TRUE, "FINISH", 0,
                                <<>>, "RACING") >>,
     edges |-> << ProcedureEdge("1", "2") >>,
     auto_restart |-> FALSE]

\* the last node of the standard procedure alone: racing until the director
\* ends the race
FinishGraph ==
    [id |-> "finish",
     nodes |-> << ProcedureNode("5", "Racing", <<>>, 0, "NONE", TRUE,
                                "FINISH RACE", 0, <<>>, "RACING") >>,
     edges |-> <<>>,
     auto_restart |-> FALSE]

CustomGraphs == {ShortGraph, TriggerGraph, FinishGraph}

NewWorker(kind, pc) == [IdleWorker EXCEPT !.kind = kind, !.pc = pc]

Accept(w, rec, max) ==
    /\ \E v \in Workers : workers[v].kind = "idle"
    /\ workers[w].kind = "idle"
    /\ commands < max
    /\ commands' = commands + 1
    /\ workers' = [v \in Workers |->
                     IF v = w
                     THEN [rec EXCEPT !.latest = TRUE,
                                      !.alone = \A u \in Workers \ {w} :
                                                   workers[u].kind = "idle"]
                     ELSE [workers[v] EXCEPT !.latest = FALSE, !.alone = FALSE]]
    /\ UNCHANGED <<engine, race, state_lock, tick_task, last_emit, ticks,
                   status_changes>>

Receive(w, rec) == Accept(w, rec, MaxCommands)

OnStartSequence(w, minutes, prep_flag) ==
    Receive(w, [NewWorker("start-sequence", "eng") EXCEPT
                   !.minutes = minutes, !.prep_flag = prep_flag])

OnProcedureAction(w, action, boats) ==
    Receive(w, [NewWorker("procedure-action",
                          IF action \in StopActions THEN "stop"
                          ELSE IF action = "INDIVIDUAL_RECALL" THEN "state"
                          ELSE "log") EXCEPT
                   !.action = action, !.boats = boats,
                   !.message = ActionMessage(action)])

OnSaveProcedure(w, graph) ==
    Receive(w, [NewWorker("save-procedure", "eng") EXCEPT !.graph = graph])

OnTriggerNode(w, node_id) ==
    Receive(w, [NewWorker("trigger-node", "eng") EXCEPT !.node_id = node_id])

OnResumeSequence(w) == Receive(w, NewWorker("resume-sequence", "eng"))

OnSetRaceStatus(w, status_str) ==
    Receive(w, [NewWorker("set-race-status", "state") EXCEPT
                   !.new_status = RaceStatusOfString(status_str)])

\* ------------------------------------------------------------------------
\* handlers.rs : the steps of the handler tasks, one per critical section
\* ------------------------------------------------------------------------
EngineOnly == UNCHANGED <<race, state_lock, tick_task, last_emit, commands, ticks,
                          status_changes>>

\* start-sequence, lines 460-474
StartSequenceEngine(w) ==
    /\ workers[w].kind = "start-sequence" /\ workers[w].pc = "eng"
    /\ LET loaded == IF engine.graph # NoGraph THEN engine
                     ELSE load_procedure(engine,
                            standard_procedure(workers[w].minutes, workers[w].prep_flag))
           r == start(loaded)
       IN /\ engine' = r.eng
          /\ workers' = [workers EXCEPT ![w].pc = "state", ![w].graph = loaded.graph,
                                        ![w].upd = r.upd,
                                        ![w].status = current_race_status(r.eng)]
    /\ EngineOnly

\* start-sequence, lines 476-497
StartSequenceState(w) ==
    /\ workers[w].kind = "start-sequence" /\ workers[w].pc = "state"
    /\ LockFree
    /\ WriteState(WithUpdate([race EXCEPT !.status = workers[w].status,
                                          !.current_procedure = workers[w].graph,
                                          !.ocs_boats = <<>>,
                                          !.prep_flag = PrepFlagOf(workers[w].prep_flag)],
                             workers[w].upd))
    /\ last_emit' = IF workers[w].upd.some THEN SequenceUpdateEmits(workers[w].upd)
                    ELSE last_emit
    /\ workers' = [workers EXCEPT ![w].pc = "read",
                                  ![w].message = "Started sequence"]
    /\ UNCHANGED <<engine, state_lock, tick_task, commands, ticks>>

\* save-procedure, lines 829-833
SaveProcedureEngine(w) ==
    /\ workers[w].kind = "save-procedure" /\ workers[w].pc = "eng"
    /\ LET r == start(load_procedure(engine, workers[w].graph))
       IN /\ engine' = r.eng
          /\ workers' = [workers EXCEPT ![w].pc = "state", ![w].upd = r.upd,
                                        ![w].status = current_race_status(r.eng)]
    /\ EngineOnly

\* save-procedure, lines 835-849
SaveProcedureState(w) ==
    /\ workers[w].kind = "save-procedure" /\ workers[w].pc = "state"
    /\ LockFree
    /\ WriteState(WithUpdate([race EXCEPT !.status = workers[w].status,
                                          !.current_procedure = workers[w].graph],
                             workers[w].upd))
    /\ last_emit' = IF workers[w].upd.some THEN SequenceUpdateEmits(workers[w].upd)
                    ELSE last_emit
    /\ workers' = [workers EXCEPT ![w].pc = "read",
                                  ![w].message = "Custom procedure deployed and started"]
    /\ UNCHANGED <<engine, state_lock, tick_task, commands, ticks>>

\* start-sequence 499-501, save-procedure 850-852, the auto-resume timers
\* 608-610 and 733-735: `let state = shared.read().await` and the state-update;
\* the read guard lives to the end of the block, across the emit_log that follows
HoldRead(w) ==
    /\ workers[w].pc = "read"
    /\ LockFree
    /\ state_lock' = [state_lock EXCEPT !.readers = @ \cup {w}]
    /\ last_emit' = <<StateUpdateEmit(race)>>
    /\ Goto(w, "log")
    /\ UNCHANGED <<engine, race, tick_task, commands, ticks, status_changes>>

\* procedure-action POSTPONE 555, GENERAL_RECALL 682, ABANDON 745, RESET 783
ActionStop(w) ==
    /\ workers[w].kind = "procedure-action" /\ workers[w].pc = "stop"
    /\ engine' = stop(engine)
    /\ workers' = [workers EXCEPT
                     ![w].pc = "state",
                     ![w].tick_seen = IF tick_task.pc # "wait" THEN ticks ELSE -1]
    /\ EngineOnly

\* a write block that sets the status and leaves the flags as they were
ActionStateStatusOnly(r, action, boats) ==
    [r EXCEPT !.status = CASE action = "POSTPONE" -> "POSTPONED"
                           [] action = "INDIVIDUAL_RECALL" -> "INDIVIDUAL_RECALL"
                           [] action = "GENERAL_RECALL" -> "GENERAL_RECALL"
                           [] action = "ABANDON" -> "ABANDONED"
                           [] OTHER -> "IDLE",
              !.ocs_boats = boats]

\* what the write block of a procedure-action leaves in RaceState
ActionState(r, action, boats) ==
    CASE action = "POSTPONE" ->
           [r EXCEPT !.status = "POSTPONED",
                     !.current_sequence = [event |-> "Postponed", flags |-> <<"AP">>],
                     !.sequence_time_remaining = NoTime,
                     !.waiting_for_trigger = FALSE, !.action_label = None]
      [] action = "INDIVIDUAL_RECALL" ->
           [r EXCEPT !.status = "INDIVIDUAL_RECALL", !.ocs_boats = boats,
                     !.current_sequence = [event |-> "Individual Recall",
                                           flags |-> <<"X">>]]
      [] action = "GENERAL_RECALL" ->
           [r EXCEPT !.status = "GENERAL_RECALL",
                     !.current_sequence = [event |-> "General Recall",
                                           flags |-> <<"FIRST_SUB">>],
                     !.sequence_time_remaining = NoTime,
                     !.waiting_for_trigger = FALSE, !.action_label = None]
      [] action = "ABANDON" ->
           [r EXCEPT !.status = "ABANDONED",
                     !.current_sequence = [event |-> "Abandoned", flags |-> <<"N">>],
                     !.sequence_time_remaining = NoTime,
                     !.waiting_for_trigger = FALSE, !.action_label = None,
                     !.ocs_boats = <<>>]
      [] action = "RESET" ->
           [r EXCEPT !.status = "IDLE", !.current_sequence = NoSequence,
                     !.sequence_time_remaining = NoTime,
                     !.waiting_for_trigger = FALSE, !.action_label = None,
                     !.is_post_trigger = FALSE, !.ocs_boats = <<>>]

\* the task is the auto-timer of an action, asleep or about to be spawned
Arming(wk) ==
    \/ wk.kind = "timer" /\ wk.pc = "sleep"
    \/ /\ wk.kind = "procedure-action" /\ wk.pc = "log"
       /\ wk.action \in {"POSTPONE", "INDIVIDUAL_RECALL", "GENERAL_RECALL"}

\* procedure-action, the write blocks 556-569, 625-636, 683-696, 746-760, 784-797
ActionWrite(w) ==
    /\ workers[w].kind = "procedure-action" /\ workers[w].pc = "state"
    /\ LockFree
    /\ LET new_race == ActionState(race, workers[w].action, workers[w].boats)
       IN /\ WriteState(new_race)
          /\ last_emit' = <<StateUpdateEmit(new_race)>>
          /\ workers' = [v \in Workers |->
                           IF v = w
                           THEN [workers[v] EXCEPT !.pc = "log", !.overtaken = FALSE]
                           ELSE IF new_race.status # race.status /\ Arming(workers[v])
                           THEN [workers[v] EXCEPT !.overtaken = TRUE]
                           ELSE workers[v]]
    /\ tick_task' = [tick_task EXCEPT
                       !.stale = @ \/ (/\ workers[w].action \in StopActions
                                        /\ tick_task.pc # "wait"
                                        /\ workers[w].tick_seen = ticks)]
    /\ UNCHANGED <<engine, state_lock, commands, ticks>>

\* tokio::time::sleep of the task a procedure-action spawns, in tenths of a second
TimerSleep(action) == IF action = "INDIVIDUAL_RECALL" THEN Sec(300) ELSE Sec(60)

TimerExpect(action) ==
    CASE action = "POSTPONE"          -> "POSTPONED"
      [] action = "INDIVIDUAL_RECALL" -> "INDIVIDUAL_RECALL"
      [] action = "GENERAL_RECALL"    -> "GENERAL_RECALL"

SpawnsTimer(wk) ==
    /\ wk.kind = "procedure-action"
    /\ wk.action \in {"POSTPONE", "INDIVIDUAL_RECALL", "GENERAL_RECALL"}

\* emit_log, lines 33-65, and what the caller does once it returned: the
\* handler ends, after spawning its auto-timer task where it has one
EmitLog(w) ==
    /\ workers[w].pc = "log"
    /\ LockFree
    /\ race' = [race EXCEPT !.logs = PushLog(@, workers[w].message)]
    /\ last_emit' = <<Emitted("new-log", race.status, NoUpdate)>>
    /\ IF SpawnsTimer(workers[w])
       THEN workers' = [workers EXCEPT ![w] =
                          [NewWorker("timer", "sleep") EXCEPT
                              !.action = workers[w].action,
                              !.sleep = TimerSleep(workers[w].action),
                              !.overtaken = workers[w].overtaken,
                              !.latest = workers[w].latest,
                              !.alone = workers[w].alone,
                              !.expect = TimerExpect(workers[w].action)]]
       ELSE Finish(w)
    /\ UNCHANGED <<engine, state_lock, tick_task, commands, ticks, status_changes>>

\* trigger-node, line 880
TriggerNodeEngine(w) ==
    /\ workers[w].kind = "trigger-node" /\ workers[w].pc = "eng"
    /\ LET r == jump_to_node(engine, workers[w].node_id)
       IN /\ engine' = r.eng
          /\ IF r.upd.some
             THEN workers' = [workers EXCEPT ![w].pc = "state", ![w].upd = r.upd,
                                 ![w].message = "Triggered procedure node"]
             ELSE Finish(w)
    /\ EngineOnly

\* trigger-node, lines 882-886: the write guard lives to the end of the block,
\* across the emit_log that follows
TriggerNodeState(w) ==
    /\ workers[w].kind = "trigger-node" /\ workers[w].pc = "state"
    /\ LockFree
    /\ state_lock' = [state_lock EXCEPT !.writer = w]
    /\ WriteState(WithUpdate(race, workers[w].upd))
    /\ last_emit' = SequenceUpdateEmits(workers[w].upd)
    /\ Goto(w, "log")
    /\ UNCHANGED <<engine, tick_task, commands, ticks>>

\* resume-sequence, lines 966-969
ResumeSequenceEngine(w) ==
    /\ workers[w].kind = "resume-sequence" /\ workers[w].pc = "eng"
    /\ LET r == resume_sequence(engine)
       IN /\ engine' = r.eng
          /\ IF r.upd.some
             THEN workers' = [workers EXCEPT ![w].pc = "state", ![w].upd = r.upd,
                                 ![w].status = current_race_status(r.eng),
                                 ![w].message = "Resumed sequence manually"]
             ELSE Finish(w)
    /\ EngineOnly

\* resume-sequence, lines 972-980: the write guard lives across emit_log too
ResumeSequenceState(w) ==
    /\ workers[w].kind = "resume-sequence" /\ workers[w].pc = "state"
    /\ LockFree
    /\ state_lock' = [state_lock EXCEPT !.writer = w]
    /\ LET new_race == WithUpdate([race EXCEPT !.status = workers[w].status],
                                  workers[w].upd)
       IN /\ WriteState(new_race)
          /\ last_emit' = SequenceUpdateEmits(workers[w].upd)
                            \o <<StateUpdateEmit(new_race)>>
    /\ Goto(w, "log")
    /\ UNCHANGED <<engine, tick_task, commands, ticks>>

\* set-race-status, lines 1123-1126
SetRaceStatus(w) ==
    /\ workers[w].kind = "set-race-status" /\ workers[w].pc = "state"
    /\ LockFree
    /\ LET new_race == [race EXCEPT !.status = workers[w].new_status]
       IN /\ WriteState(new_race)
          /\ last_emit' = <<StateUpdateEmit(new_race)>>
    /\ Finish(w)
    /\ UNCHANGED <<engine, state_lock, tick_task, commands, ticks>>

\* ------------------------------------------------------------------------
\* handlers.rs : the auto-timer tasks spawned by POSTPONE, INDIVIDUAL_RECALL
\* and GENERAL_RECALL
\* ------------------------------------------------------------------------
\* lines 583-584, 648-649, 709-710: the sleep is over; go on only if the
\* status is still the one the action set
TimerCheck(w) ==
    /\ workers[w].kind = "timer" /\ workers[w].pc = "sleep" /\ workers[w].sleep = 0
    /\ LockFree
    /\ IF race.status # workers[w].expect THEN Finish(w)
       ELSE IF workers[w].action = "INDIVIDUAL_RECALL" THEN Goto(w, "state")
       ELSE Goto(w, "eng")
    /\ UNCHANGED <<engine, race, state_lock, tick_task, last_emit, commands, ticks,
                   status_changes>>

\* lines 589-592 and 714-717: restart the engine
TimerEngine(w) ==
    /\ workers[w].kind = "timer" /\ workers[w].pc = "eng"
    /\ LET r == start(engine)
       IN /\ engine' = r.eng
          /\ workers' = [workers EXCEPT ![w].pc = "state", ![w].upd = r.upd,
                                        ![w].status = current_race_status(r.eng)]
    /\ EngineOnly

\* lines 594-606 and 719-731 (a resume), lines 652-673 (the X flag comes down
\* and the OCS boats get DNS)
TimerState(w) ==
    /\ workers[w].kind = "timer" /\ workers[w].pc = "state"
    /\ LockFree
    /\ IF workers[w].action = "INDIVIDUAL_RECALL"
       THEN LET dns == [i \in 1..Len(race.ocs_boats) |->
                           [boat_id |-> race.ocs_boats[i], penalty_type |-> "DNS"]]
                new_race == [race EXCEPT !.status = "RACING",
                                !.current_sequence = [event |-> "Racing", flags |-> <<>>],
                                !.penalties = @ \o dns, !.ocs_boats = <<>>]
            IN /\ WriteState(new_race)
               /\ last_emit' = <<StateUpdateEmit(new_race)>>
               /\ workers' = [workers EXCEPT ![w].pc = "log",
                                 ![w].message = "X flag lowered"]
       ELSE /\ WriteState(WithUpdate([race EXCEPT !.status = workers[w].status],
                                     workers[w].upd))
            /\ last_emit' = IF workers[w].upd.some
                            THEN SequenceUpdateEmits(workers[w].upd) ELSE last_emit
            /\ workers' = [workers EXCEPT ![w].pc = "read",
                              ![w].message = IF workers[w].action = "POSTPONE"
                                             THEN "AP lowered"
                                             ELSE "1st Substitute lowered"]
    /\ UNCHANGED <<engine, state_lock, tick_task, commands, ticks>>

\* ------------------------------------------------------------------------
\* main.rs : run_engine_tick
\* ------------------------------------------------------------------------
TickPeriod == 2

\* lines 75-83: the interval fired; take the engine and tick it.  A tick on
\* an engine that is not running does nothing and is passed over by AdvanceTime.
TickEngine ==
    /\ tick_task.pc = "wait" /\ tick_task.wait = 0
    /\ is_running(engine)
    /\ ticks < MaxTicks
    /\ ticks' = ticks + 1
    /\ LET r == tick(engine)
       IN /\ engine' = r.eng
          /\ tick_task' = [tick_task EXCEPT
                             !.stale = FALSE,
                             !.wait = TickPeriod, !.result = r.kind, !.upd = r.upd,
                             !.pc = CASE r.kind = "Update" -> "status"
                                      [] r.kind = "SequenceComplete" -> "finish"
                                      [] OTHER -> "wait"]
    /\ UNCHANGED <<race, state_lock, workers, last_emit, commands, status_changes>>

\* lines 89-91: read the engine's status, after the tick released the engine
TickReadStatus ==
    /\ tick_task.pc = "status"
    /\ tick_task' = [tick_task EXCEPT !.pc = "publish",
                                      !.engine_status = current_race_status(engine)]
    /\ UNCHANGED <<engine, race, state_lock, workers, last_emit, commands, ticks,
                   status_changes>>

\* lines 93-103: publish the update
TickPublish ==
    /\ tick_task.pc = "publish"
    /\ LockFree
    /\ WriteState([race EXCEPT
                      !.status = tick_task.engine_status,
                      !.current_sequence = tick_task.upd.current_sequence,
                      !.sequence_time_remaining = tick_task.upd.sequence_time_remaining,
                      !.current_node_id = tick_task.upd.current_node_id,
                      !.waiting_for_trigger = tick_task.upd.waiting_for_trigger,
                      !.action_label = tick_task.upd.action_label,
                      !.is_post_trigger = tick_task.upd.is_post_trigger])
    /\ last_emit' = SequenceUpdateEmits(tick_task.upd)
    /\ tick_task' = [tick_task EXCEPT !.pc = "wait"]
    /\ UNCHANGED <<engine, state_lock, workers, commands, ticks>>

\* lines 105-121: the sequence completed
TickFinish ==
    /\ tick_task.pc = "finish"
    /\ LockFree
    /\ WriteState([race EXCEPT
                      !.status = "FINISHED",
                      !.current_sequence = [event |-> "FINISHED", flags |-> <<>>],
                      !.sequence_time_remaining = 0])
    /\ tick_task' = [tick_task EXCEPT !.pc = "finish_read"]
    /\ UNCHANGED <<engine, state_lock, workers, last_emit, commands, ticks>>

\* lines 123-125: race-finished and state-update under a read guard
TickFinishRead ==
    /\ tick_task.pc = "finish_read"
    /\ LockFree
    /\ last_emit' = <<Emitted("race-finished", race.status, NoUpdate),
                      StateUpdateEmit(race)>>
    /\ tick_task' = [tick_task EXCEPT !.pc = "wait"]
    /\ UNCHANGED <<engine, race, state_lock, workers, commands, ticks, status_changes>>

\* ------------------------------------------------------------------------
\* Time.  A task that can take its next step takes it before time moves on;
\* time then jumps to the next deadline: the next tick of a running engine or
\* the end of a timer's sleep.
\* ------------------------------------------------------------------------
\* the worker waits for nothing but the scheduler
WorkerReady(w) ==
    /\ workers[w].kind # "idle"
    /\ \/ workers[w].pc \in {"eng", "stop"}
       \/ workers[w].pc \in {"state", "read", "log"} /\ LockFree
       \/ workers[w].pc = "sleep" /\ workers[w].sleep = 0 /\ LockFree

TickReady ==
    \/ tick_task.pc = "status"
    \/ tick_task.pc \in {"publish", "finish", "finish_read"} /\ LockFree

TickDue == tick_task.pc = "wait" /\ is_running(engine)

Sleepers == {w \in Workers : workers[w].pc = "sleep" /\ workers[w].sleep > 0}

Deadlines ==
    {workers[w].sleep : w \in Sleepers} \cup (IF TickDue THEN {tick_task.wait} ELSE {})

NextDeadline == CHOOSE x \in Deadlines : \A y \in Deadlines : x <= y

\* d tenths of a second pass, no deadline being nearer than that
Elapse(d) ==
    /\ ~TickReady
    /\ \A w \in Workers : ~WorkerReady(w)
    /\ Deadlines # {}
    /\ d > 0 /\ d <= NextDeadline
    /\ engine' = [engine EXCEPT
                    !.node_started_at = Age(@, d),
                    !.sequence_started_at = Age(@, d),
                    !.post_trigger_started_at = Age(@, d)]
    /\ workers' = [w \in Workers |->
                     IF w \in Sleepers
                     THEN [workers[w] EXCEPT !.sleep = @ - d]
                     ELSE workers[w]]
    /\ tick_task' = [tick_task EXCEPT
                       !.wait = IF TickDue THEN @ - d
                                ELSE IF tick_task.pc = "wait"
                                     THEN (@ + TickPeriod * d - d) % TickPeriod
                                     ELSE Max(@ - d, 0)]
    /\ UNCHANGED <<race, state_lock, last_emit, commands, ticks, status_changes>>

AdvanceTime == Deadlines # {} /\ Elapse(NextDeadline)

\* ------------------------------------------------------------------------
\* Specification of the race: the director's commands, the handler and timer
\* tasks they start, and the tick task.  No task of it is handed the audit
\* logger, and the hub runs apart from it.
\* ------------------------------------------------------------------------
TickPhases == 0..TickPeriod

InitSpecRace ==
    /\ AuditStarted /\ HubNotStarted /\ OcsNotRun
    /\ \E phase \in TickPhases : InitRaceAt(phase)

OutsideRace == UNCHANGED <<audit_vars, hub_vars, ocs_vars, call_vars, solve_vars, boot_vars>>

\* the step ends with save_state(&state) under the write guard it holds
OutsideRaceSaving ==
    /\ disk' = [exists |-> TRUE, state |-> save_state(race')]
    /\ UNCHANGED <<audit_vars, hub_vars, ocs_vars, call_vars, solve_vars, boots>>

\* the handler task of the next command takes the first free slot
FreeWorker == CHOOSE w \in Workers : workers[w].kind = "idle"

CmdStartSequence ==
    \E minutes \in {3, 5} : OnStartSequence(FreeWorker, minutes, "P") /\ OutsideRace

CmdProcedureAction ==
    \E action \in ProcedureActions :
        /\ OnProcedureAction(FreeWorker, action,
                             IF action = "INDIVIDUAL_RECALL" THEN <<"b1">> ELSE <<>>)
        /\ OutsideRace

CmdSaveProcedure ==
    \E graph \in CustomGraphs : OnSaveProcedure(FreeWorker, graph) /\ OutsideRace

CmdTriggerNode ==
    \E node_id \in {"2", "9"} : OnTriggerNode(FreeWorker, node_id) /\ OutsideRace

CmdResumeSequence == OnResumeSequence(FreeWorker) /\ OutsideRace

CmdSetRaceStatus ==
    \E status_str \in {"RACING", "WHATEVER"} :
        OnSetRaceStatus(FreeWorker, status_str) /\ OutsideRace

NextRace ==
    \/ CmdStartSequence
    \/ CmdProcedureAction
    \/ CmdSaveProcedure
    \/ CmdTriggerNode
    \/ CmdResumeSequence
    \/ CmdSetRaceStatus
    \/ \E w \in Workers : StartSequenceEngine(w) /\ OutsideRace
    \/ \E w \in Workers : StartSequenceState(w) /\ OutsideRace
    \/ \E w \in Workers : SaveProcedureEngine(w) /\ OutsideRace
    \/ \E w \in Workers : SaveProcedureState(w) /\ OutsideRaceSaving
    \/ \E w \in Workers : HoldRead(w) /\ OutsideRace
    \/ \E w \in Workers : ActionStop(w) /\ OutsideRace
    \/ \E w \in Workers : ActionWrite(w) /\ OutsideRace
    \/ \E w \in Workers : EmitLog(w) /\ OutsideRace
    \/ \E w \in Workers : TriggerNodeEngine(w) /\ OutsideRace
    \/ \E w \in Workers : TriggerNodeState(w) /\ OutsideRace
    \/ \E w \in Workers : ResumeSequenceEngine(w) /\ OutsideRace
    \/ \E w \in Workers : ResumeSequenceState(w) /\ OutsideRace
    \/ \E w \in Workers : SetRaceStatus(w) /\ OutsideRace
    \/ \E w \in Workers : TimerCheck(w) /\ OutsideRace
    \/ \E w \in Workers : TimerEngine(w) /\ OutsideRace
    \/ \E w \in Workers : TimerState(w) /\ OutsideRace
    \/ TickEngine /\ OutsideRace
    \/ TickReadStatus /\ OutsideRace
    \/ TickPublish /\ OutsideRace
    \/ TickFinish /\ OutsideRace
    \/ TickFinishRead /\ OutsideRace
    \/ AdvanceTime /\ OutsideRace

SpecRace == InitSpecRace /\ [][NextRace]_vars

\* ------------------------------------------------------------------------
\* Specification of the race control task across restarts of the process:
\* the behaviours of SpecRace, and the process ending at any point and
\* starting again from the file save_state last wrote.
\* ------------------------------------------------------------------------
\* number of times the process is started again in one behaviour
MaxBoots == 1

\* main, lines 155-158 and 205: the state is loaded from state.json, the
\* engine is new, no handler or timer task of the earlier process is left,
\* and the tick task starts with a tick due at once
ColdStart ==
    /\ boots < MaxBoots
    /\ boots' = boots + 1
    /\ race' = load_state(disk)
    /\ engine' = ProcedureEngineNew
    /\ state_lock' = NoLock
    /\ workers' = [w \in Workers |-> IdleWorker]
    /\ tick_task' = TickTaskAt(0)
    /\ last_emit' = <<>>
    /\ UNCHANGED <<disk, commands, ticks, status_changes>>
    /\ UNCHANGED <<audit_vars, hub_vars, ocs_vars, call_vars, solve_vars>>

NextRestart ==
    \/ NextRace
    \/ ColdStart

SpecRestart == InitSpecRace /\ [][NextRestart]_vars

\* ------------------------------------------------------------------------
\* Specification of the director's actions on a stopped engine: the actions,
\* the handler and timer tasks they start, and time passing in half minutes
\* or up to the next timer.  No procedure is loaded, so the tick task finds
\* the engine not running and passes over every tick.
\* ------------------------------------------------------------------------
MaxActions == 3

HalfMinute == Sec(30)

InitSpecTimers == AuditStarted /\ HubNotStarted /\ OcsNotRun /\ InitRaceAt(0)

TimerActions ==
    {"POSTPONE", "INDIVIDUAL_RECALL", "GENERAL_RECALL", "ABANDON", "RESET"}

CmdDirectorAction ==
    \E action \in TimerActions :
        /\ Accept(FreeWorker,
                  [NewWorker("procedure-action",
                             IF action = "INDIVIDUAL_RECALL" THEN "state" ELSE "stop")
                      EXCEPT !.action = action,
                             !.boats = IF action = "INDIVIDUAL_RECALL"
                                       THEN <<"b1">> ELSE <<>>,
                             !.message = ActionMessage(action)],
                  MaxActions)
        /\ OutsideRace

TimersTimePasses ==
    /\ Deadlines # {}
    /\ \E d \in {HalfMinute, NextDeadline} : Elapse(d)
    /\ OutsideRace

NextTimers ==
    \/ CmdDirectorAction
    \/ \E w \in Workers : ActionStop(w) /\ OutsideRace
    \/ \E w \in Workers : ActionWrite(w) /\ OutsideRace
    \/ \E w \in Workers : EmitLog(w) /\ OutsideRace
    \/ \E w \in Workers : TimerCheck(w) /\ OutsideRace
    \/ \E w \in Workers : TimerEngine(w) /\ OutsideRace
    \/ \E w \in Workers : TimerState(w) /\ OutsideRace
    \/ \E w \in Workers : HoldRead(w) /\ OutsideRace
    \/ TimersTimePasses

SpecTimers == InitSpecTimers /\ [][NextTimers]_vars

\* ------------------------------------------------------------------------
\* Specification of the audit logger: a fresh logger, two tasks calling
\* append concurrently, and one tampering of the stored chain
\* ------------------------------------------------------------------------
InitSpecAudit == InitAudit /\ HubNotStarted /\ OcsNotRun /\ InitRaceAt(0)

OutsideAudit == UNCHANGED <<hub_vars, ocs_vars, race_vars, call_vars, solve_vars, boot_vars>>

SetSession ==
    \E id \in SessionIds :
        tamper.field = "none" /\ set_session(id) /\ OutsideAudit

Begin ==
    \E t \in AuditTasks, event_type \in AppendEventTypes, payload \in Payloads,
       now \in Timestamps :
        AppendBegin(t, event_type, payload, now) /\ OutsideAudit

Build == \E t \in AuditTasks : AppendBuild(t) /\ OutsideAudit

SerializeFail == \E t \in AuditTasks : AppendSerializeFail(t) /\ OutsideAudit

WriteOk == \E t \in AuditTasks : AppendWriteOk(t) /\ OutsideAudit

WriteFail == \E t \in AuditTasks : AppendWriteFail(t) /\ OutsideAudit

OpenFail == \E t \in AuditTasks : AppendOpenFail(t) /\ OutsideAudit

Tamper ==
    \E n \in 1..Len(audit_blocks), field \in BlockFields :
        \E v \in FieldValues(field) : TamperBlock(n, field, v) /\ OutsideAudit

NextAudit ==
    \/ SetSession
    \/ Begin
    \/ Build
    \/ SerializeFail
    \/ WriteOk
    \/ WriteFail
    \/ OpenFail
    \/ Tamper

SpecAudit == InitSpecAudit /\ [][NextAudit]_vars

\* ------------------------------------------------------------------------
\* Specification of the UWB hub: the hub task alone receives datagrams; the
\* receiver half of the channel is held by main and never polled, and no
\* other task is handed the audit logger
\* ------------------------------------------------------------------------
InitSpecHub == AuditStarted /\ InitHub /\ OcsNotRun /\ InitRaceAt(0)

OutsideHub == UNCHANGED <<audit_vars, ocs_vars, race_vars, call_vars, solve_vars, boot_vars>>

NextHub ==
    \/ ProcessMalformed /\ OutsideHub
    \/ ReceiveEnvelope /\ OutsideHub

SpecHub == InitSpecHub /\ [][NextHub]_vars

\* the hub task is scheduled whenever a datagram is there for it
FairSpecHub == SpecHub /\ WF_vars(NextHub)

\* ------------------------------------------------------------------------
\* Specification of the hub with a backlog: nothing takes events out of the
\* OCS channel, and node 10 has been over the line for 63 or 64 epochs.
\* ------------------------------------------------------------------------
\* the events of n epochs in which node 10 was reported OCS
Backlog(n) ==
    [i \in 1..n |->
        [boats |-> <<from_envelope(Envelope(10, U32FromNat(i), <<150, 80, FALSE>>),
                                   DefaultOcsThreshold, DefaultMinFixQuality)>>]]

BacklogLengths == {OcsChannelCapacity - 1, OcsChannelCapacity}

InitHubBacklog ==
    \E n \in BacklogLengths :
        /\ hub_config = UwbHubConfigDefault
        /\ last_seq = [id \in Nodes |-> IF id = 10 THEN U32FromNat(n) ELSE NoEntry]
        /\ ocs_chan = Backlog(n)
        /\ ocs_delivered = <<>>
        /\ hub_last = NoPacket
        /\ hub_accepted = {<<10, U32FromNat(i)>> : i \in 1..n}
        /\ hub_pkts = 0

InitSpecBacklog == AuditStarted /\ InitHubBacklog /\ OcsNotRun /\ InitRaceAt(0)

SpecBacklog == InitSpecBacklog /\ [][NextHub]_vars

\* ------------------------------------------------------------------------
\* Specification of the OCS predicates: one determination on one fix
\* ------------------------------------------------------------------------
InitSpecOcs == AuditStarted /\ HubNotStarted /\ InitOcs /\ InitRaceAt(0)

NextOcs ==
    \/ RunDetectOcs /\ UNCHANGED <<audit_vars, hub_vars, race_vars, call_vars, solve_vars, boot_vars>>
    \/ RunFromEnvelope /\ UNCHANGED <<audit_vars, hub_vars, race_vars, call_vars, solve_vars, boot_vars>>
    \/ RunIsOcs /\ UNCHANGED <<audit_vars, hub_vars, race_vars, call_vars, solve_vars, boot_vars>>

SpecOcs == InitSpecOcs /\ [][NextOcs]_vars

\* ------------------------------------------------------------------------
\* Specification of the procedure engine alone: its public methods called in
\* any order on the graphs below, with time passing between the calls
\* ------------------------------------------------------------------------
\* a graph without nodes
EmptyGraph == [id |-> "empty", nodes |-> <<>>, edges |-> <<>>, auto_restart |-> FALSE]

\* a single node of duration 0
SingleGraph ==
    [id |-> "single",
     nodes |-> << ProcedureNode("s", "Start", <<>>, 0, "ONE_SHORT", FALSE, None, 0,
                                <<>>, None) >>,
     edges |-> <<>>,
     auto_restart |-> FALSE]

\* a rolling sequence: the node with id "1" is not the first declared one
RollingGraph ==
    [id |-> "rolling",
     nodes |-> << ProcedureNode("0", "Idle", <<>>, 0, "NONE", FALSE, None, 0, <<>>,
                                None),
                  ProcedureNode("1", "Warning Signal", <<"CLASS">>, 2, "ONE_SHORT",
                                FALSE, None, 0, <<>>, None),
                  ProcedureNode("2", "Start", <<>>, 0, "ONE_LONG", FALSE, None, 0,
                                <<>>, None) >>,
     edges |-> << ProcedureEdge("0", "1"), ProcedureEdge("1", "2") >>,
     auto_restart |-> TRUE]

\* nodes that wait for the director, with and without a post-trigger countdown
HoldGraph ==
    [id |-> "hold",
     nodes |-> << ProcedureNode("a", "Warning Signal", <<"CLASS">>, 2, "ONE_SHORT",
                                TRUE, "GO", 2, <<"P">>, None),
                  ProcedureNode("b", "One-Minute", <<"CLASS">>, 0, "ONE_LONG", TRUE,
                                "GO", 0, <<>>, None),
                  ProcedureNode("c", "Start", <<>>, 2, "ONE_SHORT", FALSE, None, 2,
                                <<>>, None) >>,
     edges |-> << ProcedureEdge("a", "b"), ProcedureEdge("b", "c") >>,
     auto_restart |-> FALSE]

\* an edge leads back to an earlier node
CycleGraph ==
    [id |-> "cycle",
     nodes |-> << ProcedureNode("b", "Preparatory Signal", <<"P">>, 9, "ONE_SHORT",
                                FALSE, None, 0, <<>>, None),
                  ProcedureNode("a", "One-Minute", <<>>, 2, "ONE_LONG", FALSE, None,
                                0, <<>>, None) >>,
     edges |-> << ProcedureEdge("b", "a"), ProcedureEdge("a", "b") >>,
     auto_restart |-> FALSE]

\* timed nodes around a node of duration 0, the last with a post-trigger
\* countdown
PlainGraph ==
    [id |-> "plain",
     nodes |-> << ProcedureNode("1", "Warning Signal", <<"CLASS">>, 2, "ONE_SHORT",
                                FALSE, None, 0, <<>>, None),
                  ProcedureNode("2", "Start", <<>>, 0, "ONE_LONG", FALSE, None, 0,
                                <<>>, None),
                  ProcedureNode("3", "Preparatory Signal", <<"CLASS", "P">>, 2,
                                "ONE_SHORT", FALSE, None, 2, <<"CLASS">>, None) >>,
     edges |-> << ProcedureEdge("1", "2"), ProcedureEdge("2", "3") >>,
     auto_restart |-> FALSE]

\* the edge of the only node leads to an id no node has
DanglingGraph ==
    [id |-> "dangling",
     nodes |-> << ProcedureNode("1", "Warning Signal", <<"CLASS">>, 2, "ONE_SHORT",
                                FALSE, None, 0, <<>>, None) >>,
     edges |-> << ProcedureEdge("1", "x") >>,
     auto_restart |-> FALSE]

EngineGraphs ==
    {EmptyGraph, SingleGraph, RollingGraph, HoldGraph, CycleGraph, PlainGraph,
     DanglingGraph}

\* node ids handed to jump_to_node; "missing" is in no graph
JumpTargets == {"a", "1", "missing"}

OutsideEngine ==
    UNCHANGED <<audit_vars, hub_vars, ocs_vars, race, state_lock, workers,
                tick_task, last_emit, commands, ticks, status_changes,
                solve_vars, boot_vars>>

\* the engine after a call and what the call returned; prev is the update of
\* the tick before when this call and the one before are both ticks
Called(op, arg, kind, upd, e) ==
    /\ engine' = e
    /\ eng_call' = [op |-> op, arg |-> arg, kind |-> kind, upd |-> upd,
                    prev |-> IF op = "tick" /\ eng_call.op = "tick"
                             THEN eng_call.upd ELSE NoUpdate]
    /\ UNCHANGED eng_clock

\* a call other than tick
Manual ==
    /\ eng_calls < MaxEngineCalls
    /\ eng_calls' = eng_calls + 1

OptionKind(upd) == IF upd.some THEN "Update" ELSE "Idle"

CallLoad ==
    \E graph \in EngineGraphs :
        /\ Manual
        /\ Called("load", graph.id, "Idle", NoUpdate, load_procedure(engine, graph))
        /\ OutsideEngine

CallStart ==
    /\ Manual
    /\ Called("start", None, OptionKind(start(engine).upd), start(engine).upd,
              start(engine).eng)
    /\ OutsideEngine

CallStop ==
    /\ Manual
    /\ Called("stop", None, "Idle", NoUpdate, stop(engine))
    /\ OutsideEngine

CallJumpTo ==
    \E node_id \in JumpTargets :
        /\ Manual
        /\ Called("jump_to", node_id, OptionKind(jump_to_node(engine, node_id).upd),
                  jump_to_node(engine, node_id).upd, jump_to_node(engine, node_id).eng)
        /\ OutsideEngine

CallResume ==
    /\ Manual
    /\ Called("resume", None, OptionKind(resume_sequence(engine).upd),
              resume_sequence(engine).upd, resume_sequence(engine).eng)
    /\ OutsideEngine

CallTick ==
    /\ Called("tick", None, tick(engine).kind, tick(engine).upd, tick(engine).eng)
    /\ UNCHANGED eng_calls
    /\ OutsideEngine

\* a tenth of a second passes: every Instant the engine holds is older by it
TimePasses ==
    /\ eng_clock < MaxClock
    /\ eng_clock' = eng_clock + 1
    /\ engine' = [engine EXCEPT !.node_started_at = Age(@, 1),
                                !.sequence_started_at = Age(@, 1),
                                !.post_trigger_started_at = Age(@, 1)]
    /\ UNCHANGED <<eng_call, eng_calls>>
    /\ OutsideEngine

InitSpecEngine == AuditStarted /\ HubNotStarted /\ OcsNotRun /\ InitRaceAt(0)

NextEngine ==
    \/ CallLoad
    \/ CallStart
    \/ CallStop
    \/ CallJumpTo
    \/ CallResume
    \/ CallTick
    \/ TimePasses

SpecEngine == InitSpecEngine /\ [][NextEngine]_vars

\* ------------------------------------------------------------------------
\* Specification of the engine under mutate-future-node: a procedure is
\* loaded and started, the tick task ticks it, and the director changes
\* node durations while it runs.
\* ------------------------------------------------------------------------
MutateTargets == {"1", "2", "a", "missing"}

NewDurations == {0, 4}

\* mutate-future-node, lines 921-924: the engine's critical section
CallMutateFutureNode ==
    \E node_id \in MutateTargets, new_duration \in NewDurations :
        LET e == update_node_duration(engine, node_id, new_duration)
            upd == build_update(e)
        IN /\ Manual
           /\ Called("update_node_duration", node_id, OptionKind(upd), upd, e)
           /\ OutsideEngine

NextMutate ==
    \/ CallLoad
    \/ CallStart
    \/ CallMutateFutureNode
    \/ CallTick
    \/ TimePasses

SpecMutate == InitSpecEngine /\ [][NextMutate]_vars

\* ------------------------------------------------------------------------
\* Specification of the solver: one call of solve on a small epoch, a sweep
\* of its Gauss-Newton loop being one step.
\* ------------------------------------------------------------------------
MaxIter == 3

\* MarkA, MarkB and the committee boat, in centimetres of the line frame
AnchorMap == (1 :> <<0, 0>>) @@ (2 :> <<80, 0>>) @@ (3 :> <<0, 60>>)

\* node 10 at (30, -40)
MeasOne ==
    << RangeMeasurement(10, 1, 50, FALSE), RangeMeasurement(10, 2, 64, FALSE),
       RangeMeasurement(3, 10, 104, FALSE) >>

\* and node 11 at (60, -80), with a range between the two boats
MeasTwo ==
    MeasOne \o << RangeMeasurement(11, 1, 100, FALSE),
                  RangeMeasurement(11, 2, 82, FALSE),
                  RangeMeasurement(11, 10, 50, FALSE) >>

\* ranges that no position satisfies, one of them not in line of sight
MeasNoisy ==
    << RangeMeasurement(10, 1, 55, FALSE), RangeMeasurement(10, 2, 60, FALSE),
       RangeMeasurement(3, 10, 110, TRUE) >>

MeasSingle == << RangeMeasurement(10, 1, 50, FALSE) >>

MeasAnchors == << RangeMeasurement(1, 2, 80, FALSE) >>

Epochs == {MeasOne, MeasTwo, MeasNoisy, MeasSingle, MeasAnchors}

NoGuess == [id \in {} |-> <<0, 0>>]

Guesses ==
    {NoGuess,
     (10 :> <<30, -40>>) @@ (11 :> <<60, -80>>),
     (10 :> <<36, -32>>) @@ (11 :> <<66, -86>>),
     (10 :> <<24, -36>>)}

Thresholds == {0, 1, 4}

OutsideSolve ==
    UNCHANGED <<audit_vars, hub_vars, ocs_vars, race_vars, call_vars, boot_vars>>

OutsideSolver == OutsideSolve /\ UNCHANGED epoch

\* lines 94-125: solve is called and sets up its locals
SolveCall ==
    /\ solver.pc = "idle"
    /\ \E measurements \in Epochs, initial_guess \in Guesses,
          max_iter \in 0..MaxIter, converge_threshold \in Thresholds :
         LET ids == UnknownIds(measurements, AnchorMap)
             called == [SolverIdle EXCEPT !.measurements = measurements,
                                          !.max_iter = max_iter,
                                          !.converge_threshold = converge_threshold]
         IN solver' =
              IF ids = {} THEN [called EXCEPT !.pc = "done"]
              ELSE [called EXCEPT
                      !.pc = "loop",
                      !.unknown_ids = SortedIds(ids),
                      !.positions = [id \in ids |->
                                       IF id \in DOMAIN initial_guess
                                       THEN initial_guess[id] ELSE DefaultGuess]]
    /\ OutsideSolver

\* lines 127-203: one pass of `for iter in 0..max_iter`
SolveSweep ==
    /\ solver.pc = "loop" /\ solver.iter < solver.max_iter
    /\ LET Swept(sweep, done) ==
               [solver EXCEPT
                  !.final_iter = solver.iter + 1,
                  !.sweeps = @ + 1,
                  !.positions = sweep.positions,
                  !.max_update = sweep.max_update,
                  !.n_rejected = sweep.n_rejected,
                  !.final_rms = IF sweep.n_used > 0
                                THEN Sqrt(sweep.sum_sq_res \div sweep.n_used)
                                ELSE 0,
                  !.converged = done,
                  !.iter = IF done THEN @ ELSE @ + 1,
                  !.pc = IF done THEN "break" ELSE "loop"]
           Judged(sweep) ==
               Swept(sweep, Converges(sweep.max_update, solver.converge_threshold))
       IN solver' = Judged(Sweep(solver.positions, solver.unknown_ids,
                                 solver.measurements, AnchorMap))
    /\ OutsideSolver

\* lines 205-216: the loop is left and the result is built.  The count of
\* measurements is a u32 difference: where more rejections than measurements
\* were counted, a build with overflow checks panics and one without wraps.
SolveReturn ==
    /\ \/ solver.pc = "break"
       \/ solver.pc = "loop" /\ solver.iter >= solver.max_iter
    /\ \/ solver' = [solver EXCEPT
                       !.pc = "done", !.some = TRUE,
                       !.n_measurements =
                           wrapping_sub(U32FromNat(Len(solver.measurements)),
                                        U32FromNat(solver.n_rejected))]
       \/ /\ solver.n_rejected > Len(solver.measurements)
          /\ solver' = [solver EXCEPT !.pc = "panic"]
    /\ OutsideSolver

NextSolve ==
    \/ SolveCall
    \/ SolveSweep
    \/ SolveReturn

SpecSolve == InitSpecEngine /\ [][NextSolve]_vars

\* ------------------------------------------------------------------------
\* Specification of generate_epoch at one node: the peers are ranged one by
\* one, each in line of sight or not, and the fix quality is derived from
\* the reports.
\* ------------------------------------------------------------------------
\* number of peers a node ranges to in one epoch
MaxPeers == 9

\* lines 202-210: the report of one more peer
PushPeer ==
    /\ epoch.pc = "peers" /\ Len(epoch.peers) < MaxPeers
    /\ \E nlos \in BOOLEAN :
         epoch' = [epoch EXCEPT !.peers = Append(@, [nlos |-> nlos])]
    /\ UNCHANGED solver
    /\ OutsideSolve

\* the number of reports not in line of sight, line 214
NlosCount(peers) == Cardinality({k \in 1..Len(peers) : peers[k].nlos})

\* lines 213-218
EpochFixQuality ==
    /\ epoch.pc = "peers"
    /\ epoch' = [epoch EXCEPT !.pc = "done",
                              !.quality = fix_quality(NlosCount(epoch.peers),
                                                      Len(epoch.peers))]
    /\ UNCHANGED solver
    /\ OutsideSolve

NextEpoch ==
    \/ PushPeer
    \/ EpochFixQuality

SpecEpoch == InitSpecEngine /\ [][NextEpoch]_vars

\* ------------------------------------------------------------------------
\* Specification of the standard sequence: the 5-minute RRS 26 graph with
\* prep flag P is loaded and started, then the engine is ticked every 200 ms
\* with no other call
\* ------------------------------------------------------------------------
StandardStart ==
    /\ eng_call.op = None
    /\ Called("start", None,
              OptionKind(start(load_procedure(engine, standard_procedure(5, "P"))).upd),
              start(load_procedure(engine, standard_procedure(5, "P"))).upd,
              start(load_procedure(engine, standard_procedure(5, "P"))).eng)
    /\ UNCHANGED eng_calls
    /\ OutsideEngine

\* the next interval tick: TickPeriod tenths of a second after the one before
StandardTick ==
    /\ eng_call.op # None
    /\ eng_clock + TickPeriod <= Sec(MaxRunSeconds)
    /\ LET aged == [engine EXCEPT !.node_started_at = Age(@, TickPeriod),
                                  !.sequence_started_at = Age(@, TickPeriod),
                                  !.post_trigger_started_at = Age(@, TickPeriod)]
       IN /\ engine' = tick(aged).eng
          /\ eng_call' = [op |-> "tick", arg |-> None, kind |-> tick(aged).kind,
                          upd |-> tick(aged).upd,
                          prev |-> IF eng_call.op = "tick" THEN eng_call.upd
                                   ELSE NoUpdate]
    /\ eng_clock' = eng_clock + TickPeriod
    /\ UNCHANGED eng_calls
    /\ OutsideEngine

NextStandard ==
    \/ StandardStart
    \/ StandardTick

SpecStandard == InitSpecEngine /\ [][NextStandard]_vars

\* ------------------------------------------------------------------------
\* Properties of the audit chain
\* ------------------------------------------------------------------------
\* the link check a verifier runs on block i of a stored chain, against the
\* stored hash of its predecessor and against the recomputed one
LinkedToStored(chain, i) == chain[i].prev_hash = chain[i - 1].block_hash

LinkedToRecomputed(chain, i) ==
    chain[i].prev_hash = compute_hash(chain[i - 1].prev_hash, chain[i - 1].timestamp_ms,
                                      chain[i - 1].event_type, chain[i - 1].payload_json)

HashedFields == {"payload_json", "prev_hash", "timestamp_ms", "event_type"}

\* C1: the blocks append produced, in production order, carry block_seq
\* 0,1,2,... without gap or duplicate, the first has the genesis prev_hash and
\* every later one has the block_hash of its predecessor as prev_hash; the
\* tail kept by the logger is the next block_seq and the last block_hash.
C1_ChainLinked ==
    /\ \A i \in 1..Len(audit_blocks) :
          /\ audit_blocks[i].block_seq = i - 1
          /\ IF i = 1 THEN audit_blocks[i].prev_hash = GENESIS_HASH
                      ELSE LinkedToStored(audit_blocks, i)
    /\ audit_state.block_seq = Len(audit_blocks)
    /\ Len(audit_blocks) > 0 =>
          audit_state.last_hash = audit_blocks[Len(audit_blocks)].block_hash

\* three blocks were produced, the last two by calls that were inside append
\* at the same time
C1_Witness ==
    /\ Len(audit_blocks) = 3
    /\ \A t \in AuditTasks : audit_task[t].pc = "built"

\* C2: every block append produced verifies; a stored block in which one of
\* the hashed fields was altered without recomputing block_hash does not
\* verify, and its successor does not link to its recomputed hash.
C2_VerifyDetectsHashedFields ==
    /\ \A i \in 1..Len(audit_blocks) : verify(audit_blocks[i])
    /\ tamper.field \in HashedFields =>
          /\ ~verify(replay[tamper.idx])
          /\ tamper.idx < Len(replay) =>
                ~LinkedToRecomputed(replay, tamper.idx + 1)

\* the payload of a block that has a successor was altered
C2_Witness ==
    /\ tamper.field = "payload_json"
    /\ tamper.idx < Len(replay)

\* C3: a stored block in which any single field was changed fails its own
\* verify() or the prev_hash link check of its successor.
C3_AnyTamperDetected ==
    tamper.field # "none" =>
        \/ ~verify(replay[tamper.idx])
        \/ /\ tamper.idx < Len(replay)
           /\ \/ ~LinkedToStored(replay, tamper.idx + 1)
              \/ ~LinkedToRecomputed(replay, tamper.idx + 1)

\* C4: the lines of the log file are in increasing block_seq order and each
\* line's prev_hash is the block_hash of the line written just before it.
C4_FileOrdered ==
    \A i \in 2..Len(audit_file) :
        /\ audit_file[i].block_seq > audit_file[i - 1].block_seq
        /\ LinkedToStored(audit_file, i)

\* C5: when the only append call ever made ends by dropping its block on a
\* serialisation failure, block_seq and the tail hash are what they were when
\* the call began.
C5_DropKeepsChain ==
    [][\A t \in AuditTasks :
          (AppendSerializeFail(t) /\ audit_calls = 1)
          => audit_state' = audit_task[t].entry_state]_vars

\* ------------------------------------------------------------------------
\* Properties of the sequence tracker and the hub
\* ------------------------------------------------------------------------
\* d = (seq_num - last[node]) mod 2^32 of the latest envelope
LastDiff == wrapping_sub(hub_last.seq_num, hub_last.last_before)

\* last[node]: the stored value, 0 for a node without entry
LastOf(node_id) == EntryOrInsert(last_seq, node_id)

\* C6: accept returns true iff 0 < d < 1000 for d = (seq - last[node]) mod
\* 2^32, and on acceptance last[node] becomes seq.
C6_AcceptIffInWindow ==
    hub_last.kind = "envelope" =>
        /\ hub_last.accepted <=>
              (U32GtNat(LastDiff, 0) /\ U32LtNat(LastDiff, 1000))
        /\ hub_last.accepted => LastOf(hub_last.node_id) = hub_last.seq_num

OcsHandled ==
    /\ \E i \in 1..Len(ocs_delivered) :
          ocs_delivered[i].boats[1].node_id = hub_last.node_id
    /\ \E i \in 1..Len(audit_blocks) : audit_blocks[i].event_type = "OCS_DETECTED"

\* C8: an accepted envelope classified OCS leads to its OcsEvent being
\* delivered to a consumer and to an OCS_DETECTED block in the audit chain.
C8_OcsDeliveredAndAudited ==
    (hub_last.kind = "envelope" /\ hub_last.accepted /\ hub_last.is_ocs)
        ~> OcsHandled

\* ------------------------------------------------------------------------
\* Properties of the OCS predicates
\* ------------------------------------------------------------------------
\* the thresholds a determination of the given kind compares with
OcsThresholdOf(kind) ==
    IF kind = "is_ocs" THEN DefaultOcsThreshold ELSE ocs_case.ocs_threshold_m

MinQualityOf(kind) ==
    IF kind = "is_ocs" THEN DefaultMinFixQuality ELSE ocs_case.min_fix_quality

\* C10: a node is reported OCS iff its y_line is strictly greater than the
\* threshold and its fix quality (0 when unknown) is at least the minimum; in
\* particular never on the threshold and never below the minimum quality.
C10_OcsIffOverAndQuality ==
    ocs_result.kind # "none" =>
        LET q == IF ocs_case.fix_quality = UnknownQuality THEN 0
                 ELSE ocs_case.fix_quality
        IN /\ ocs_result.ocs <=>
                (/\ ocs_case.y_line_m > OcsThresholdOf(ocs_result.kind)
                 /\ q >= MinQualityOf(ocs_result.kind))
           /\ ocs_case.y_line_m = OcsThresholdOf(ocs_result.kind) => ~ocs_result.ocs
           /\ q < MinQualityOf(ocs_result.kind) => ~ocs_result.ocs

\* from_envelope answered on a fix exactly on the threshold with good quality
C10_Witness ==
    /\ ocs_result.kind = "from_envelope"
    /\ ocs_case.y_line_m = ocs_case.ocs_threshold_m
    /\ ocs_case.fix_quality >= ocs_case.min_fix_quality
    /\ ~ocs_result.ocs

\* ------------------------------------------------------------------------
\* Properties of the race
\* ------------------------------------------------------------------------
\* RACE_STATUS_CHANGE blocks in the chain, and append calls for one in flight
StatusBlocks ==
    {i \in 1..Len(audit_blocks) : audit_blocks[i].event_type = "RACE_STATUS_CHANGE"}

StatusAppendsInFlight ==
    {t \in AuditTasks : /\ audit_task[t].pc # "idle"
                        /\ audit_task[t].event_type = "RACE_STATUS_CHANGE"}

\* C9: every change of the race status made by the tick task, a handler or
\* an auto-timer has a RACE_STATUS_CHANGE block in the audit chain, or an
\* append call for one under way.
C9_StatusChangesAudited ==
    status_changes <= Cardinality(StatusBlocks) + Cardinality(StatusAppendsInFlight)

\* ------------------------------------------------------------------------
\* Properties of the procedure engine
\* ------------------------------------------------------------------------
\* a step that is a call of the method op (other than tick) on the engine
IsCall(op) == eng_calls' = eng_calls + 1 /\ eng_call'.op = op

HasNodes(e) == e.graph # NoGraph /\ Len(e.graph.nodes) > 0

HasNodeId(e, id) ==
    e.graph # NoGraph /\ \E i \in 1..Len(e.graph.nodes) : e.graph.nodes[i].id = id

\* C12: start() on a loaded non-empty graph enters node "1" if there is one and
\* the first declared node otherwise, stamps both timestamps to now, clears the
\* post-trigger phase, keeps the graph and returns an update for that node;
\* without a graph or on an empty graph it returns nothing and changes nothing.
C12_StartEntersEntryNode ==
    [][IsCall("start") =>
         IF HasNodes(engine)
         THEN /\ engine'.current_node_id =
                   (IF HasNodeId(engine, "1") THEN "1" ELSE engine.graph.nodes[1].id)
              /\ engine'.node_started_at = 0
              /\ engine'.sequence_started_at = 0
              /\ ~engine'.is_post_trigger
              /\ engine'.post_trigger_started_at = NoInstant
              /\ engine'.graph = engine.graph
              /\ eng_call'.upd.some
              /\ eng_call'.upd.current_node_id = engine'.current_node_id
         ELSE engine' = engine /\ ~eng_call'.upd.some]_vars

\* start() has entered node "1" of a graph that declares another node first
C12_Witness ==
    /\ eng_call.op = "start"
    /\ engine.graph = RollingGraph
    /\ engine.current_node_id = "1"
    /\ eng_call.upd.some

\* C13: load(graph) replaces the graph and clears the whole runtime: no
\* current node, no post-trigger phase, no timestamps, not running, and tick()
\* returns Idle.
C13_LoadClearsRuntime ==
    [][IsCall("load") =>
         /\ engine'.graph.id = eng_call'.arg
         /\ engine'.current_node_id = None
         /\ ~engine'.is_post_trigger
         /\ engine'.node_started_at = NoInstant
         /\ engine'.post_trigger_started_at = NoInstant
         /\ ~is_running(engine')
         /\ tick(engine').kind = "Idle"]_vars

\* the node the engine is on; only used where OnNode holds
NodeOf(e) ==
    e.graph.nodes[CHOOSE i \in 1..Len(e.graph.nodes) :
                     /\ e.graph.nodes[i].id = e.current_node_id
                     /\ \A j \in 1..(i - 1) : e.graph.nodes[j].id # e.current_node_id]

\* the engine is on a node of its graph, with the node's entry stamped
OnNode(e) ==
    /\ e.current_node_id # None
    /\ HasNodeId(e, e.current_node_id)
    /\ e.node_started_at # NoInstant

\* the engine holds on a node that waits for the director's trigger
HoldsOnTrigger(e) ==
    /\ OnNode(e)
    /\ NodeOf(e).wait_for_user_trigger
    /\ ~e.is_post_trigger

\* C14: tick() never leaves a node with wait_for_user_trigger outside its
\* post-trigger phase, and once elapsed >= duration (at once when duration is
\* 0) the update it emits has waiting_for_trigger set; on such a node only
\* resume, jump_to, stop, load or start change the current node.
C14_TriggerNodeHolds ==
    [][HoldsOnTrigger(engine) =>
         /\ CallTick =>
              /\ engine'.current_node_id = engine.current_node_id
              /\ ~engine'.is_post_trigger
              /\ (NodeOf(engine).duration = 0
                  \/ engine.node_started_at >= NodeOf(engine).duration)
                 => /\ eng_call'.kind = "Update"
                    /\ eng_call'.upd.waiting_for_trigger
         /\ engine'.current_node_id # engine.current_node_id =>
              \E op \in {"resume", "jump_to", "stop", "load", "start"} : IsCall(op)]_vars

\* two ticks in a row found the engine on node "a" after its duration ran out
C14_Witness ==
    /\ eng_call.op = "tick"
    /\ engine.graph = HoldGraph
    /\ engine.current_node_id = "a"
    /\ engine.node_started_at > NodeOf(engine).duration
    /\ eng_call.prev.waiting_for_trigger
    /\ eng_call.upd.waiting_for_trigger

\* the first edge leaving the current node leads to node id
Successor(e, id) ==
    \E i \in 1..Len(e.graph.edges) :
        /\ e.graph.edges[i].source = e.current_node_id
        /\ e.graph.edges[i].target = id
        /\ \A j \in 1..(i - 1) : e.graph.edges[j].source # e.current_node_id

HasSuccessor(e) ==
    \E i \in 1..Len(e.graph.edges) : e.graph.edges[i].source = e.current_node_id

\* the step leaves the current node: for its successor when it has one, and
\* otherwise for the first declared node or for no node at all
Advances ==
    /\ ~engine'.is_post_trigger
    /\ engine'.post_trigger_started_at = NoInstant
    /\ IF HasSuccessor(engine)
       THEN Successor(engine, engine'.current_node_id) /\ engine'.node_started_at = 0
       ELSE \/ engine'.current_node_id = None /\ engine'.node_started_at = NoInstant
            \/ /\ engine'.current_node_id = engine.graph.nodes[1].id
               /\ engine'.node_started_at = 0

\* the step re-emits: the engine is as it was and the call returned an update
ReEmits == engine' = engine /\ eng_call'.kind = "Update"

\* C15: on a node with duration > 0 and no wait_for_user_trigger, tick() stays
\* while elapsed < duration; at elapsed >= duration it enters the post-trigger
\* phase of the node when post_trigger_duration > 0 and advances otherwise; in
\* post-trigger it re-emits while post-elapsed < post_trigger_duration and
\* advances once post-elapsed >= post_trigger_duration.
C15_TimedNodeSteps ==
    [][(/\ CallTick
        /\ OnNode(engine)
        /\ NodeOf(engine).duration > 0
        /\ ~NodeOf(engine).wait_for_user_trigger)
       => IF ~engine.is_post_trigger
          THEN IF engine.node_started_at < NodeOf(engine).duration
               THEN ReEmits
               ELSE IF NodeOf(engine).post_trigger_duration > 0
                    THEN /\ engine'.current_node_id = engine.current_node_id
                         /\ engine'.is_post_trigger
                         /\ engine'.post_trigger_started_at = 0
                         /\ engine'.node_started_at = engine.node_started_at
                    ELSE Advances
          ELSE IF engine.post_trigger_started_at < NodeOf(engine).post_trigger_duration
               THEN ReEmits
               ELSE Advances]_vars

\* a tick found the duration of node "3" run out and entered its post-trigger
\* phase
C15_Witness ==
    /\ eng_call.op = "tick"
    /\ engine.graph = PlainGraph
    /\ engine.current_node_id = "3"
    /\ eng_call.prev.current_node_id = "3"
    /\ ~eng_call.prev.is_post_trigger
    /\ eng_call.upd.is_post_trigger
    /\ engine.post_trigger_started_at = 0

\* tick() on engine e has to leave the current node
MustAdvance(e) ==
    /\ OnNode(e)
    /\ IF e.is_post_trigger
       THEN /\ e.post_trigger_started_at # NoInstant
            /\ e.post_trigger_started_at >= NodeOf(e).post_trigger_duration
       ELSE /\ ~NodeOf(e).wait_for_user_trigger
            /\ \/ NodeOf(e).duration = 0
               \/ /\ NodeOf(e).duration > 0
                  /\ e.node_started_at >= NodeOf(e).duration
                  /\ NodeOf(e).post_trigger_duration = 0

\* C16: a tick that must advance from a node without outgoing edge returns
\* SequenceComplete and clears the runtime when auto_restart is false, after
\* which ticks return Idle; with auto_restart it re-enters the first declared
\* node and SequenceComplete is never returned.  A single node of duration 0
\* yields SequenceComplete on the first tick after start().
C16_EndOfGraph ==
    [][CallTick =>
         /\ (MustAdvance(engine) /\ ~HasSuccessor(engine)) =>
              IF engine.graph.auto_restart
              THEN /\ engine'.current_node_id = engine.graph.nodes[1].id
                   /\ engine'.node_started_at = 0
                   /\ eng_call'.kind = "Update"
              ELSE /\ eng_call'.kind = "SequenceComplete"
                   /\ engine'.current_node_id = None
                   /\ ~is_running(engine')
         /\ engine.current_node_id = None => eng_call'.kind = "Idle"
         /\ (engine.graph # NoGraph /\ engine.graph.auto_restart)
               => eng_call'.kind # "SequenceComplete"
         /\ (engine.graph = SingleGraph /\ eng_call.op = "start")
               => eng_call'.kind = "SequenceComplete"]_vars

\* the rolling graph ran out of edges at node "2" and the tick re-entered its
\* first declared node
C16_Witness ==
    /\ eng_call.op = "tick"
    /\ engine.graph = RollingGraph
    /\ eng_call.prev.current_node_id = "2"
    /\ engine.current_node_id = "0"
    /\ engine.node_started_at = 0

\* C17: resume() on a node with wait_for_user_trigger on which the engine is
\* paused enters the node's post-trigger phase when post_trigger_duration > 0
\* and the engine is not in it yet, and otherwise moves to the successor with
\* the post-trigger flag cleared and the node timestamp reset.
C17_ResumeFromTrigger ==
    [][(/\ IsCall("resume")
        /\ OnNode(engine)
        /\ NodeOf(engine).wait_for_user_trigger
        /\ \/ engine.is_post_trigger
           \/ NodeOf(engine).duration = 0
           \/ engine.node_started_at >= NodeOf(engine).duration)
       => IF ~engine.is_post_trigger /\ NodeOf(engine).post_trigger_duration > 0
          THEN /\ engine'.current_node_id = engine.current_node_id
               /\ engine'.is_post_trigger
               /\ engine'.post_trigger_started_at = 0
               /\ engine'.node_started_at = engine.node_started_at
          ELSE HasSuccessor(engine) =>
                 /\ Successor(engine, engine'.current_node_id)
                 /\ ~engine'.is_post_trigger
                 /\ engine'.post_trigger_started_at = NoInstant
                 /\ engine'.node_started_at = 0]_vars

\* resume() found the engine paused on node "a" and started its post-trigger
\* countdown
C17_Witness ==
    /\ eng_call.op = "resume"
    /\ engine.graph = HoldGraph
    /\ engine.current_node_id = "a"
    /\ engine.node_started_at >= NodeOf(engine).duration
    /\ engine.is_post_trigger
    /\ engine.post_trigger_started_at = 0

\* C18: jump_to(id) with an id of the graph makes id the current node, resets
\* the elapsed time and clears the post-trigger phase (so a jump to the
\* current node restarts its countdown); with an id the graph does not hold,
\* or without a graph, it returns nothing and changes nothing.
C18_JumpTo ==
    [][IsCall("jump_to") =>
         IF HasNodeId(engine, eng_call'.arg)
         THEN /\ engine'.current_node_id = eng_call'.arg
              /\ engine'.node_started_at = 0
              /\ ~engine'.is_post_trigger
              /\ engine'.post_trigger_started_at = NoInstant
              /\ engine'.graph = engine.graph
              /\ eng_call'.upd.some
              /\ eng_call'.upd.current_node_id = eng_call'.arg
         ELSE engine' = engine /\ ~eng_call'.upd.some]_vars

\* a jump to node "a" of the hold graph after time has passed on it
C18_Witness ==
    /\ eng_call.op = "jump_to"
    /\ eng_call.arg = "a"
    /\ engine.graph = HoldGraph
    /\ engine.current_node_id = "a"
    /\ engine.node_started_at = 0
    /\ eng_clock > 0

\* the latest two calls were ticks and both returned an update
ConsecutiveUpdates ==
    /\ eng_call.op = "tick"
    /\ eng_call.upd.some
    /\ eng_call.prev.some

\* C20: in a run of consecutive ticks the sequence_time_remaining of each
\* update is at most that of the update before, on every graph.
C20_RemainingNonIncreasing ==
    ConsecutiveUpdates =>
        eng_call.upd.sequence_time_remaining <= eng_call.prev.sequence_time_remaining

\* every edge leads to a node declared after its source
EdgesLeadForward(graph) ==
    \A k \in 1..Len(graph.edges) :
        \E i, j \in 1..Len(graph.nodes) :
            /\ i < j
            /\ graph.nodes[i].id = graph.edges[k].source
            /\ graph.nodes[j].id = graph.edges[k].target
            /\ \A h \in 1..(j - 1) : graph.nodes[h].id # graph.edges[k].target

\* C20, amended: on a graph without auto_restart whose edges all lead to a
\* node declared later and whose durations are not negative, the
\* sequence_time_remaining of each update of a run of consecutive ticks is at
\* most that of the update before.
C20_RemainingNonIncreasingForward ==
    (/\ ConsecutiveUpdates
     /\ ~engine.graph.auto_restart
     /\ EdgesLeadForward(engine.graph)
     /\ \A i \in 1..Len(engine.graph.nodes) : engine.graph.nodes[i].duration >= 0)
    => eng_call.upd.sequence_time_remaining <= eng_call.prev.sequence_time_remaining

\* a tick moved from node "2" of the plain graph to node "3"
C20_Witness ==
    /\ ConsecutiveUpdates
    /\ engine.graph = PlainGraph
    /\ eng_call.prev.current_node_id = "2"
    /\ eng_call.upd.current_node_id = "3"

\* ------------------------------------------------------------------------
\* Properties of the standard sequence
\* ------------------------------------------------------------------------
\* the flags of the update the latest call returned
ActiveFlags ==
    {eng_call.upd.current_sequence.flags[i] :
        i \in 1..Len(eng_call.upd.current_sequence.flags)}

\* C19: the standard 5-minute sequence with prep flag P, started and ticked
\* every 200 ms, is in Warning during [0, 60) s, in Preparatory from 60 s, in
\* OneMinute from 240 s and in Racing from 300 s, where it passes through the
\* Start node; flag P is up exactly from 60 s to 240 s; at 301 s it is Racing.
C19_StandardTimeline ==
    eng_call.op # None =>
        /\ eng_call.kind = "Update"
        /\ eng_call.upd.status = current_race_status(engine)
        /\ current_race_status(engine) =
             (IF eng_clock < Sec(60) THEN "WARNING"
              ELSE IF eng_clock < Sec(240) THEN "PREPARATORY"
              ELSE IF eng_clock < Sec(300) THEN "ONE_MINUTE"
              ELSE "RACING")
        /\ "P" \in ActiveFlags <=> (Sec(60) <= eng_clock /\ eng_clock < Sec(240))
        /\ eng_clock = Sec(300) => engine.current_node_id = "4"
        /\ eng_clock > Sec(300) => engine.current_node_id = "5"

\* 301 s after the start the sequence is Racing
C19_Witness ==
    /\ eng_clock = Sec(301)
    /\ eng_call.op = "tick"
    /\ current_race_status(engine) = "RACING"
    /\ engine.graph = standard_procedure(5, "P")

\* ------------------------------------------------------------------------
\* Properties of the locks
\* ------------------------------------------------------------------------
\* task w holds a read or write guard on the shared state
HoldsGuard(w) == state_lock.writer = w \/ w \in state_lock.readers

\* C11: no task waits forever on a lock: every task releases the locks it
\* takes, and none requests the write lock of the shared state, as emit_log
\* does, while it holds a read or write guard on the shared state.
C11_NoLockRequestedUnderGuard ==
    \A w \in Workers :
        /\ workers[w].pc = "log" => ~HoldsGuard(w)
        /\ HoldsGuard(w) => workers[w].kind # "idle"

\* ------------------------------------------------------------------------
\* Properties of the updates the tick task publishes
\* ------------------------------------------------------------------------
\* C21: with the engine ticked every 200 ms, only the first update after the
\* entry into a node carries the node's sound; every later update of the same
\* visit, and every post-trigger update, has sound none.
C21_EntrySoundOnce ==
    (eng_call.op = "tick" /\ eng_call.upd.some) =>
        /\ eng_call.upd.is_post_trigger => eng_call.upd.sound = "NONE"
        /\ (/\ eng_call.prev.some
            /\ eng_call.prev.current_node_id = eng_call.upd.current_node_id
            /\ eng_call.prev.sound # "NONE")
           => eng_call.upd.sound = "NONE"

\* ------------------------------------------------------------------------
\* The director's actions and their timers
\* ------------------------------------------------------------------------
FlagActions == {"POSTPONE", "INDIVIDUAL_RECALL", "GENERAL_RECALL", "ABANDON"}

\* the handler of a procedure-action takes its stop step, its write step
StopStep(w) ==
    /\ workers[w].kind = "procedure-action" /\ workers[w].pc = "stop"
    /\ workers'[w].pc = "state"

WriteStep(w) ==
    /\ workers[w].kind = "procedure-action" /\ workers[w].pc = "state"
    /\ workers'[w].pc = "log"

StatusOfAction(action) ==
    CASE action = "POSTPONE"          -> "POSTPONED"
      [] action = "INDIVIDUAL_RECALL" -> "INDIVIDUAL_RECALL"
      [] action = "GENERAL_RECALL"    -> "GENERAL_RECALL"
      [] action = "ABANDON"           -> "ABANDONED"

FlagsOfAction(action) ==
    CASE action = "POSTPONE"          -> <<"AP">>
      [] action = "INDIVIDUAL_RECALL" -> <<"X">>
      [] action = "GENERAL_RECALL"    -> <<"FIRST_SUB">>
      [] action = "ABANDON"           -> <<"N">>

RaisesFlag(w) ==
    /\ race'.status = StatusOfAction(workers[w].action)
    /\ race'.current_sequence.flags = FlagsOfAction(workers[w].action)

\* C22: when the handler of POSTPONE, INDIVIDUAL_RECALL, GENERAL_RECALL or
\* ABANDON has written the shared state, the engine is not running, the race
\* status is the action's status and the active flags are the action's flag
C22_ActionStopsAndRaisesFlag ==
    [][\A w \in Workers :
          (WriteStep(w) /\ workers[w].action \in FlagActions) =>
              ~is_running(engine') /\ RaisesFlag(w)]_vars

\* C22, amended: POSTPONE, GENERAL_RECALL and ABANDON stop the engine, and
\* INDIVIDUAL_RECALL leaves it as it is; each of the four writes its status
\* and its flag
C22_ActionRaisesFlag ==
    [][\A w \in Workers :
          /\ (StopStep(w) /\ workers[w].action \in FlagActions) =>
                 ~is_running(engine')
          /\ (WriteStep(w) /\ workers[w].action \in FlagActions) =>
                 RaisesFlag(w) /\ engine' = engine
          /\ (workers[w].kind = "idle" /\ workers'[w].kind = "procedure-action"
                /\ workers'[w].action = "INDIVIDUAL_RECALL") =>
                 workers'[w].pc = "state"]_vars

\* the X flag is up over a running engine
C22_Witness ==
    /\ race.status = "INDIVIDUAL_RECALL"
    /\ race.current_sequence.flags = <<"X">>
    /\ is_running(engine)
    /\ \E w \in Workers : workers[w].kind = "procedure-action" /\ workers[w].pc = "log"

\* the timer's check found the status it was armed with, and it goes on
TimerActs(w) ==
    /\ workers[w].kind = "timer" /\ workers[w].pc = "sleep"
    /\ workers'[w].kind = "timer" /\ workers'[w].pc \in {"eng", "state"}

\* C23: an auto-timer does nothing at its expiry when a manual command changed
\* the race status after the action that armed it, also when a later action
\* has set the status back to the value the timer was armed with
C23_OvertakenTimerDoesNothing ==
    [][\A w \in Workers : TimerActs(w) => ~workers[w].overtaken]_vars

\* the individual-recall timer expired and makes its check
RecallTimerFires(w) ==
    /\ workers[w].kind = "timer" /\ workers[w].action = "INDIVIDUAL_RECALL"
    /\ workers[w].pc = "sleep" /\ workers[w].sleep = 0
    /\ workers'[w].kind = "idle" \/ workers'[w].pc # "sleep"

\* the individual-recall timer writes the shared state
RecallTimerWrites(w) ==
    /\ workers[w].kind = "timer" /\ workers[w].action = "INDIVIDUAL_RECALL"
    /\ workers[w].pc = "state" /\ workers'[w].pc = "log"

DnsFor(boats) ==
    [i \in 1..Len(boats) |-> [boat_id |-> boats[i], penalty_type |-> "DNS"]]

\* the handler of an INDIVIDUAL_RECALL is about to write the shared state
RecallPending(w) ==
    /\ workers[w].kind = "procedure-action" /\ workers[w].pc = "state"
    /\ workers[w].action = "INDIVIDUAL_RECALL"

\* the individual-recall timer has expired and is about to read the status
RecallTimerDue(w) ==
    /\ workers[w].kind = "timer" /\ workers[w].action = "INDIVIDUAL_RECALL"
    /\ workers[w].pc = "sleep" /\ workers[w].sleep = 0

\* a task awaits the write lock inside emit_log under a guard of its own,
\* and the shared state is closed to every task from then on
StateClosed == \E v \in Workers : HoldsGuard(v) /\ workers[v].pc = "log"

\* C24: when no command comes after an INDIVIDUAL_RECALL, the recall raises
\* the X flag and its timer gets to make its check at expiry; the timer of a
\* recall that came alone goes on to its write, which sets the status to
\* Racing with no flag, appends one DNS penalty for every boat in ocs_boats
\* and empties ocs_boats; the engine may be running or not
C24_RecallTimerLowersX ==
    /\ [](\A w \in Workers :
             ((RecallPending(w) \/ RecallTimerDue(w)) /\ workers[w].latest)
                 => ~StateClosed)
    /\ [][\A w \in Workers :
             /\ (RecallTimerFires(w) /\ workers[w].alone) =>
                    workers'[w].kind = "timer" /\ workers'[w].pc = "state"
             /\ RecallTimerWrites(w) =>
                    /\ race'.status = "RACING"
                    /\ race'.current_sequence.flags = <<>>
                    /\ race'.penalties = race.penalties \o DnsFor(race.ocs_boats)
                    /\ race'.ocs_boats = <<>>]_vars

ResumeActions == {"POSTPONE", "GENERAL_RECALL"}

\* the handler of a POSTPONE or GENERAL_RECALL is about to write the state
ResumePending(w) ==
    /\ workers[w].kind = "procedure-action" /\ workers[w].pc = "state"
    /\ workers[w].action \in ResumeActions

ResumeTimer(w) == workers[w].kind = "timer" /\ workers[w].action \in ResumeActions

ResumeTimerDue(w) ==
    ResumeTimer(w) /\ workers[w].pc = "sleep" /\ workers[w].sleep = 0

\* the auto-resume timer makes its check
ResumeTimerFires(w) ==
    /\ ResumeTimerDue(w)
    /\ workers'[w].kind = "idle" \/ workers'[w].pc # "sleep"

\* C25: with no command after a POSTPONE or GENERAL_RECALL, the action takes
\* effect and 60 s later its timer finds the status unchanged, restarts the
\* engine at the entry node with fresh timestamps and writes that node's
\* status; the timer leaves the shared state open, so that the tick task can
\* publish the steps that follow.  A timer that finds the status Idle, as
\* after a RESET, ends and leaves the engine and the status alone.
C25_AutoResume ==
    /\ [](\A w \in Workers :
             /\ ((ResumePending(w) \/ ResumeTimerDue(w)) /\ workers[w].latest)
                   => ~StateClosed
             /\ (ResumeTimer(w) /\ workers[w].pc = "log") => ~HoldsGuard(w))
    /\ [][\A w \in Workers :
             /\ (ResumeTimerFires(w) /\ race.status = workers[w].expect) =>
                    workers'[w].kind = "timer" /\ workers'[w].pc = "eng"
             /\ (ResumeTimerFires(w) /\ race.status = "IDLE") =>
                    workers'[w].kind = "idle" /\ engine' = engine /\ race' = race
             /\ (ResumeTimer(w) /\ workers[w].pc = "eng" /\ workers'[w].pc = "state"
                   /\ HasNodes(engine)) =>
                    /\ engine'.current_node_id =
                          (IF HasNodeId(engine, "1") THEN "1"
                           ELSE engine.graph.nodes[1].id)
                    /\ engine'.node_started_at = 0
                    /\ engine'.sequence_started_at = 0
             /\ (ResumeTimer(w) /\ workers[w].pc = "state" /\ workers'[w].pc = "read"
                   /\ is_running(engine)) =>
                    race'.status = current_race_status(engine)]_vars

\* ------------------------------------------------------------------------
\* Properties of mutate-future-node
\* ------------------------------------------------------------------------
\* the graphs differ in nothing, or in the duration of node node_id alone
SameButDuration(g, h, node_id) ==
    /\ h.id = g.id /\ h.edges = g.edges /\ h.auto_restart = g.auto_restart
    /\ Len(h.nodes) = Len(g.nodes)
    /\ \A i \in 1..Len(g.nodes) :
          IF g.nodes[i].id = node_id
          THEN [h.nodes[i] EXCEPT !.duration = 0] = [g.nodes[i] EXCEPT !.duration = 0]
          ELSE h.nodes[i] = g.nodes[i]

\* C26: a mutate-future-node request that names the current node leaves the
\* graph unchanged; one that names another node changes at most that node's
\* duration; the request changes nothing else of the engine, in one step
C26_CurrentNodeNotMutated ==
    [][IsCall("update_node_duration") =>
         /\ engine' = [engine EXCEPT !.graph = engine'.graph]
         /\ IF engine.graph = NoGraph \/ eng_call'.arg = engine.current_node_id
            THEN engine'.graph = engine.graph
            ELSE SameButDuration(engine.graph, engine'.graph, eng_call'.arg)]_vars

\* ------------------------------------------------------------------------
\* Properties of the solver
\* ------------------------------------------------------------------------
\* C27: a call of solve makes at most max_iter sweeps and reports as many
\* iterations as it made, and it reports converged only when the largest
\* update of a node in the last sweep it made was below converge_threshold
C27_SolveBounded ==
    /\ solver.sweeps <= solver.max_iter
    /\ solver.final_iter = solver.sweeps
    /\ solver.pc = "loop" => ~solver.converged
    /\ solver.converged =>
          solver.sweeps > 0 /\ solver.max_update < solver.converge_threshold

\* solve converged in its second sweep or later, after moving a node
C27_Witness ==
    /\ solver.pc = "done" /\ solver.some
    /\ solver.converged /\ solver.final_iter > 1

\* ------------------------------------------------------------------------
\* Properties of the tick task against the director's actions
\* ------------------------------------------------------------------------
\* the tick task writes the result of its engine step to the shared state
TickWrites ==
    /\ tick_task.pc \in {"publish", "finish"}
    /\ tick_task'.pc # tick_task.pc

\* C28: the tick task does not publish the result of an engine step that it
\* made before a POSTPONE, GENERAL_RECALL, ABANDON or RESET stopped the engine
\* and wrote its status and flags, so these stay as the action wrote them
C28_NoStalePublish == [][TickWrites => ~tick_task.stale]_vars

\* ------------------------------------------------------------------------
\* Properties of the remaining time of the whole sequence
\* ------------------------------------------------------------------------
\* the remaining time of the current node before it is rounded up to whole
\* seconds: of the post-trigger countdown in the post-trigger phase, of the
\* node's own countdown otherwise
NodeLevelRemaining(e) ==
    IF e.is_post_trigger
    THEN Max(0, NodeOf(e).post_trigger_duration - e.post_trigger_started_at)
    ELSE IF NodeOf(e).duration > 0
         THEN Max(0, NodeOf(e).duration - e.node_started_at) ELSE 0

\* the durations of the distinct successors of the current node
SuccessorDurations(e) ==
    WalkDurations(e.graph, get_next_node_id(e.graph, e.current_node_id),
                  {e.current_node_id})

\* C29: the sequence_time_remaining of every update of a tick is the
\* remaining time of the current node, in its post-trigger phase too, plus
\* the durations of the distinct successors reached along outgoing edges,
\* rounded up to whole seconds
C29_TotalIsNodePlusSuccessors ==
    [][CallTick /\ eng_call'.kind = "Update" =>
         eng_call'.upd.sequence_time_remaining
             = CeilSec(NodeLevelRemaining(engine') + SuccessorDurations(engine'))]_vars

\* ------------------------------------------------------------------------
\* Properties of the state across a restart of the process
\* ------------------------------------------------------------------------
\* the runtime part of the race state is reset
RuntimeReset(r) ==
    /\ r.status = "IDLE"
    /\ r.current_node_id = None
    /\ ~r.waiting_for_trigger
    /\ ~r.is_post_trigger
    /\ r.sequence_time_remaining = NoTime

\* C30: a cold start from whatever save_state last wrote leaves status Idle,
\* no current node, waiting_for_trigger and is_post_trigger false and no time
\* remaining, and an engine that is not running
C30_ColdStartResetsRuntime ==
    [][ColdStart => RuntimeReset(race') /\ ~is_running(engine')]_vars

\* ------------------------------------------------------------------------
\* Properties of the counts in the result of solve
\* ------------------------------------------------------------------------
\* solve has built its result, or has panicked in building it
SolveEnded == solver.pc = "panic" \/ (solver.pc = "done" /\ solver.some)

\* C31: in every result of solve n_rejected is at most the number of
\* measurements supplied and n_measurements + n_rejected is that number; the
\* subtraction that builds n_measurements does not underflow
C31_CountsAddUp ==
    SolveEnded =>
        /\ solver.pc # "panic"
        /\ solver.n_rejected <= Len(solver.measurements)
        /\ solver.n_measurements
              = U32FromNat(Len(solver.measurements) - solver.n_rejected)

\* ------------------------------------------------------------------------
\* Properties of the fix quality
\* ------------------------------------------------------------------------
\* the formula min(100, max(0, 70 - 12 n_nlos) + 4 min(8, n_total))
ClampedQuality(n_nlos, n_total) ==
    Min(100, Max(0, 70 - 12 * n_nlos) + 4 * Min(8, n_total))

LastBehind == wrapping_sub(hub_last.last_before, hub_last.seq_num)

\* C33: an envelope whose seq_num is 1, 2 or 3 behind the last value seen
\* from its node is accepted
C33_SmallReorderAccepted ==
    (/\ hub_last.kind = "envelope" /\ ~hub_last.first
     /\ U32GtNat(LastBehind, 0) /\ U32LtNat(LastBehind, 4))
    => hub_last.accepted

\* d lies in the window 1..1000
InWindow(d) == U32GtNat(d, 0) /\ ~U32GtNat(d, ReplayWindow)

\* the latest envelope was rejected for a seq_num more than 1000 ahead of
\* last[node]
JumpRejected ==
    /\ hub_last.kind = "envelope"
    /\ ~hub_last.accepted
    /\ U32GtNat(LastDiff, ReplayWindow)

\* C34: an envelope more than 1000 ahead of last[node] is rejected and leaves
\* last[node] as it was; the next envelope of that node is measured against
\* the same last[node] and is accepted only with a seq_num in the window
\* (last[node], last[node] + 1000]
C34_JumpRejectedAndStuck ==
    [][/\ hub_last'.kind = "envelope" =>
            LET n == hub_last'.node_id
                d == wrapping_sub(hub_last'.seq_num, LastOf(n))
            IN U32GtNat(d, ReplayWindow) =>
                  ~hub_last'.accepted /\ last_seq'[n] = LastOf(n)
       /\ (/\ JumpRejected
           /\ hub_last'.kind = "envelope"
           /\ hub_last'.node_id = hub_last.node_id) =>
              /\ hub_last'.last_before = hub_last.last_before
              /\ hub_last'.accepted <=>
                    InWindow(wrapping_sub(hub_last'.seq_num, hub_last.last_before))
      ]_vars

\* a node seen before sent a seq_num 1002 ahead of last[node] when no envelope
\* had been accepted yet: it was rejected and last[node] stayed
C34_Witness ==
    /\ JumpRejected /\ ~hub_last.first
    /\ LastDiff = U32FromNat(ReplayWindow + 2)
    /\ LastOf(hub_last.node_id) = hub_last.last_before
    /\ hub_pkts = 0

\* C35: the first envelope ever received from a node is accepted whatever its
\* seq_num, 0 and values above 1000 included, and its seq_num is recorded
C35_FirstPacketAccepted ==
    (hub_last.kind = "envelope" /\ hub_last.first) =>
        /\ hub_last.accepted
        /\ LastOf(hub_last.node_id) = hub_last.seq_num

\* ------------------------------------------------------------------------
\* Properties of the end of the sequence
\* ------------------------------------------------------------------------
\* the resume-sequence handler of task w returns after its resume took the
\* engine off the last node of a graph without auto-restart
ResumeCompletes(w) ==
    /\ workers[w].kind = "resume-sequence" /\ workers[w].pc = "eng"
    /\ workers'[w].pc = "done"
    /\ is_running(engine) /\ ~is_running(engine')

\* the tick task writes the state after its tick completed the sequence
TickCompletes == tick_task.pc = "finish" /\ tick_task'.pc # "finish"

\* C36: when the sequence completes, by a tick or by a director's resume on
\* the last node, the task that completed it leaves the shared status
\* Finished
C36_CompletionFinishes ==
    [][/\ TickCompletes => race'.status = "FINISHED"
       /\ \A w \in Workers : ResumeCompletes(w) => race'.status = "FINISHED"]_vars

\* ------------------------------------------------------------------------
\* Properties of resume() and of the current node
\* ------------------------------------------------------------------------
\* the engine is on a node and is not paused on it for the director: the node
\* has no user trigger, or its countdown has not run out
NotPaused(e) ==
    /\ OnNode(e)
    /\ ~e.is_post_trigger
    /\ \/ ~NodeOf(e).wait_for_user_trigger
       \/ e.node_started_at < NodeOf(e).duration

\* C37: resume() called while the engine is not paused on a user-gated node
\* leaves the current node, the post-trigger flag and the timestamps as they
\* were
C37_ResumeOnlyWhenPaused ==
    [][(IsCall("resume") /\ NotPaused(engine)) =>
          /\ engine'.current_node_id = engine.current_node_id
          /\ engine'.is_post_trigger = engine.is_post_trigger
          /\ engine'.node_started_at = engine.node_started_at
          /\ engine'.post_trigger_started_at = engine.post_trigger_started_at
          /\ engine'.sequence_started_at = engine.sequence_started_at]_vars

\* C38: while is_running() is true, current_node_id names a node of the
\* loaded graph, so that tick() never yields Idle while the engine is running
C38_RunningOnDeclaredNode ==
    /\ [](is_running(engine) => OnNode(engine))
    /\ [][(CallTick /\ is_running(engine)) => eng_call'.kind # "Idle"]_vars

\* ------------------------------------------------------------------------
\* Properties of the hub at a full OCS channel
\* ------------------------------------------------------------------------
\* the latest envelope was accepted and classified OCS
OcsAccepted == hub_last.kind = "envelope" /\ hub_last.accepted /\ hub_last.is_ocs

\* C39: process_packet does not wait on the OCS channel: with the channel
\* full the event of an accepted OCS envelope is dropped and last[node] has
\* advanced all the same; with room in the channel the event is queued
C39_FullChannelDrops ==
    OcsAccepted =>
        /\ LastOf(hub_last.node_id) = hub_last.seq_num
        /\ IF Len(hub_last.chan_before) >= OcsChannelCapacity
           THEN ocs_chan = hub_last.chan_before /\ ~hub_last.sent
           ELSE /\ Len(ocs_chan) = Len(hub_last.chan_before) + 1
                /\ SubSeq(ocs_chan, 1, Len(hub_last.chan_before)) = hub_last.chan_before
                /\ ocs_chan[Len(ocs_chan)].boats[1].node_id = hub_last.node_id

\* an OCS envelope was accepted while the channel held 64 events
C39_Witness ==
    /\ OcsAccepted
    /\ Len(hub_last.chan_before) = OcsChannelCapacity
    /\ ocs_chan = hub_last.chan_before
    /\ LastOf(hub_last.node_id) = hub_last.seq_num

\* ------------------------------------------------------------------------
\* Properties of the auto-resume timers against RESET and ABANDON
\* ------------------------------------------------------------------------
\* the auto-resume timer of task w, past its status check, restarts the
\* engine or writes the status of the restarted engine
ResumeTimerProceeds(w) ==
    /\ workers[w].kind = "timer"
    /\ workers[w].action \in {"POSTPONE", "GENERAL_RECALL"}
    /\ workers[w].pc \in {"eng", "state"}
    /\ workers'[w].pc # workers[w].pc

\* a RESET or an ABANDON wrote the state after the timer of task w had found
\* the status it expected
ResetSinceCheck(w) ==
    /\ race.status # workers[w].expect
    /\ race.status \in {"IDLE", "ABANDONED"}

\* C40: an auto-resume timer that has read status Postponed (or
\* GeneralRecall) does not restart the engine and does not overwrite the
\* shared status once a RESET or an ABANDON has been handled in between
C40_TimerCheckAtomic ==
    [][\A w \in Workers :
          (ResumeTimerProceeds(w) /\ ResetSinceCheck(w)) =>
              /\ engine' = engine
              /\ race'.status = race.status]_vars

====
